---- MODULE Spec2Model ----
(***************************************************************************)
(* The Razen tree-walking evaluator (src/src/runtime.py) as a state        *)
(* machine.  The recursive calls of Runtime.evaluate / execute_statement / *)
(* execute_block / _call_function are unfolded into an explicit stack of   *)
(* pending work (`control`) and a stack of intermediate values (`vals`):   *)
(* one step of the machine is one dispatch of the Python code.  The AST    *)
(* nodes are the tuples src/src/parser.py builds, written as records.      *)
(***************************************************************************)
EXTENDS Integers, Sequences, FiniteSets, TLC

VARIABLES
    scope_stack,   \* Runtime.scope_stack: sequence of frames, [1] is global_scope
    functions,     \* Runtime.functions: name -> [params, body]
    control,       \* pending work of the interpreter, head = next to run
    vals,          \* values of the sub-expressions evaluated so far, last = newest
    sig,           \* exception in flight: "ok", "return" (ReturnSignal) or an error
    retval,        \* ReturnSignal.value of the signal in flight
    out,           \* values written to stdout by show / print
    diag,          \* messages written by report_error
    warn,          \* "Warning: ..." lines written to stderr
    phase,         \* "idle" (outside run_program) or "running"
    runs,          \* number of run_program calls started on this Runtime
    program,       \* the statements handed to the current / last run_program
    last,          \* the dispatch the interpreter performed last
    lexer,         \* the Lexer object of lexer.py and its PLY lexer
    yacc           \* the PLY parser of parser.py and the interpreter driving it

vars == <<scope_stack, functions, control, vals, sig, retval, out, diag, warn,
          phase, runs, program, last, lexer, yacc>>

\* the state of the Runtime, and the state of the front end
runtime == <<scope_stack, functions, control, vals, sig, retval, out, diag, warn,
             phase, runs, program, last>>

front == <<lexer, yacc>>

-----------------------------------------------------------------------------
(* Bounds of the model.                                                    *)

MaxRuns == 2       \* run_program calls per Runtime
MaxLit == 2        \* integer literals of the generated programs are 0..MaxLit
MaxCode == 4       \* characters of a source text handed to tokenize
MaxCalls == 2      \* calls of tokenize or parse on the one Lexer
MaxTokens == 4     \* tokens of a source text handed to parse

-----------------------------------------------------------------------------
(* Values.  A Python value is [k, n, d, s]: kind, the rational n/d (d > 0, *)
(* lowest terms) and, for a str, the sequence s of its characters.  int    *)
(* and bool have d = 1; None is kind "null"; a built-in function object is *)
(* kind "builtin".                                                         *)

RECURSIVE GCD(_, _)
GCD(a, b) == IF b = 0 THEN a ELSE GCD(b, a % b)

Abs(i) == IF i < 0 THEN -i ELSE i

IntV(i) == [k |-> "int", n |-> i, d |-> 1, s |-> <<>>]

BoolV(b) == [k |-> "bool", n |-> IF b THEN 1 ELSE 0, d |-> 1, s |-> <<>>]

NoneV == [k |-> "null", n |-> 0, d |-> 1, s |-> <<>>]

BuiltinV(i) == [k |-> "builtin", n |-> i, d |-> 1, s |-> <<>>]

\* a str, as the sequence of its characters
StrV(chars) == [k |-> "str", n |-> 0, d |-> 1, s |-> chars]

\* a float n/d, d # 0, in lowest terms with a positive denominator
Float(n, d) ==
    LET g == GCD(Abs(n), Abs(d))
        sgn == IF d < 0 THEN -1 ELSE 1
    IN [k |-> "float", n |-> (sgn * n) \div g, d |-> (sgn * d) \div g, s |-> <<>>]

IsNum(v) == v.k \in {"int", "float", "bool"}

\* Python truthiness of a value (if / while / and / or / not)
Truthy(v) ==
    CASE v.k = "null" -> FALSE
      [] v.k = "builtin" -> TRUE
      [] v.k = "str" -> v.s # <<>>
      [] OTHER -> v.n # 0

\* Python ==
PyEq(a, b) ==
    IF IsNum(a) /\ IsNum(b) THEN a.n * b.d = b.n * a.d
    ELSE a.k = b.k /\ a.n = b.n /\ a.s = b.s

\* Python <  on numbers
PyLt(a, b) == a.n * b.d < b.n * a.d

\* floor division and modulo with Python's sign rule, b # 0
PyFloorDiv(a, b) ==
    IF b > 0 THEN a \div b ELSE (-a) \div (-b)

PyMod(a, b) == a - b * PyFloorDiv(a, b)

\* kind of the result of + - * %: float when a float takes part
NumKind(a, b) == IF a.k = "float" \/ b.k = "float" THEN "float" ELSE "int"

Num(kind, n, d) == IF kind = "float" THEN Float(n, d) ELSE IntV(n \div d)

\* the decimal digit i as a character
Digit(i) == <<"0", "1", "2", "3", "4", "5", "6", "7", "8", "9">>[i + 1]

\* the decimal digits of a natural number
RECURSIVE NatDigits(_)
NatDigits(n) ==
    IF n < 10 THEN <<Digit(n)>> ELSE NatDigits(n \div 10) \o <<Digit(n % 10)>>

\* the digits of r/d (0 < r < d) after the decimal point, by long division
RECURSIVE FracDigits(_, _, _)
FracDigits(r, d, fuel) ==
    IF r = 0 \/ fuel = 0 THEN <<>>
    ELSE <<Digit((10 * r) \div d)>> \o FracDigits((10 * r) % d, d, fuel - 1)

\* Python str(value).  The text of a float is exact when its decimal
\* expansion terminates within 16 digits, which holds for every float the
\* programs below turn into text; the text of a built-in function object
\* (which holds a memory address) is a single opaque character.
Str(v) ==
    LET sign == IF v.n < 0 THEN <<"-">> ELSE <<>>
    IN CASE v.k = "str" -> v.s
         [] v.k = "int" -> sign \o NatDigits(Abs(v.n))
         [] v.k = "bool" -> IF v.n = 1 THEN <<"T", "r", "u", "e">>
                                       ELSE <<"F", "a", "l", "s", "e">>
         [] v.k = "null" -> <<"N", "o", "n", "e">>
         [] v.k = "float" ->
                sign \o NatDigits(Abs(v.n) \div v.d) \o <<".">>
                \o (IF Abs(v.n) % v.d = 0 THEN <<"0">>
                    ELSE FracDigits(Abs(v.n) % v.d, v.d, 16))
         [] OTHER -> <<"<bound method>">>

\* the characters of the strings of the model, in the order of their code
\* points
CodePointOrder ==
    <<"!", "-", ".", "0", "1", "2", "3", "4", "5", "6", "7", "8", "9",
      "F", "N", "T", "a", "b", "e", "l", "n", "o", "r", "s", "u">>

Ord(c) == CHOOSE i \in 1..Len(CodePointOrder) : CodePointOrder[i] = c

\* Python <  on two str: lexicographic by code point
RECURSIVE StrLt(_, _)
StrLt(a, b) ==
    IF b = <<>> THEN FALSE
    ELSE IF a = <<>> THEN TRUE
    ELSE IF Head(a) = Head(b) THEN StrLt(Tail(a), Tail(b))
    ELSE Ord(Head(a)) < Ord(Head(b))

\* Python str * int: repetition
RECURSIVE Repeat(_, _)
Repeat(chars, times) ==
    IF times <= 0 THEN <<>> ELSE chars \o Repeat(chars, times - 1)

-----------------------------------------------------------------------------
(* Outcome of a Python call: the exception it raises ("ok" for none) and   *)
(* the value it returns.                                                   *)

Ok(v) == [sig |-> "ok", val |-> v]

Raise(e) == [sig |-> e, val |-> NoneV]

Errors ==
    {"NameError", "TypeError", "ZeroDivisionError", "NotImplementedError", "RuntimeError"}

\* the arithmetic operators of evaluate's binop branch on two numbers
Arith(op, a, b) ==
    CASE op = "+" -> Ok(Num(NumKind(a, b), a.n * b.d + b.n * a.d, a.d * b.d))
      [] op = "-" -> Ok(Num(NumKind(a, b), a.n * b.d - b.n * a.d, a.d * b.d))
      [] op = "*" -> Ok(Num(NumKind(a, b), a.n * b.n, a.d * b.d))
      [] op = "/" -> Ok(Float(a.n * b.d, a.d * b.n))
      [] op = "%" -> Ok(Num(NumKind(a, b), PyMod(a.n * b.d, b.n * a.d), a.d * b.d))

\* the ordering operators on two numbers
Compare(op, a, b) ==
    CASE op = "<" -> BoolV(PyLt(a, b))
      [] op = "<=" -> BoolV(~PyLt(b, a))
      [] op = ">" -> BoolV(PyLt(b, a))
      [] op = ">=" -> BoolV(~PyLt(a, b))

\* the ordering operators on two str
CompareStr(op, a, b) ==
    CASE op = "<" -> BoolV(StrLt(a.s, b.s))
      [] op = "<=" -> BoolV(~StrLt(b.s, a.s))
      [] op = ">" -> BoolV(StrLt(b.s, a.s))
      [] op = ">=" -> BoolV(~StrLt(a.s, b.s))

\* operator.mul on a str and an int (or bool), in either order
IsRepetition(a, b) ==
    \/ a.k = "str" /\ b.k \in {"int", "bool"}
    \/ b.k = "str" /\ a.k \in {"int", "bool"}

DivisionByZero_none(op) == IF op = "%" THEN Ok(NoneV) ELSE Raise("ZeroDivisionError")

\* lines 236 and 239: a zero right operand of / or % raises
DivisionByZero(op) == Raise("ZeroDivisionError")

BinOps == {"+", "-", "*", "/", "%", "==", "!=", "<", "<=", ">", ">=", "&&", "||"}

\* evaluate, binop branch, after both operands have been evaluated
BinopApply(op, left_val, right_val) ==
    CASE op = "+" /\ (left_val.k = "str" \/ right_val.k = "str") ->
            Ok(StrV(Str(left_val) \o Str(right_val)))
      [] op = "*" /\ IsRepetition(left_val, right_val) ->
            Ok(StrV(IF left_val.k = "str" THEN Repeat(left_val.s, right_val.n)
                                          ELSE Repeat(right_val.s, left_val.n)))
      [] op \in {"+", "-", "*"} ->
            IF IsNum(left_val) /\ IsNum(right_val)
            THEN Arith(op, left_val, right_val) ELSE Raise("TypeError")
      [] op \in {"/", "%"} ->
            IF PyEq(right_val, IntV(0)) THEN DivisionByZero(op)
            ELSE IF IsNum(left_val) /\ IsNum(right_val)
            THEN Arith(op, left_val, right_val) ELSE Raise("TypeError")
      [] op = "==" -> Ok(BoolV(PyEq(left_val, right_val)))
      [] op = "!=" -> Ok(BoolV(~PyEq(left_val, right_val)))
      [] op \in {"<", "<=", ">", ">="} ->
            IF IsNum(left_val) /\ IsNum(right_val)
            THEN Ok(Compare(op, left_val, right_val))
            ELSE IF left_val.k = "str" /\ right_val.k = "str"
            THEN Ok(CompareStr(op, left_val, right_val))
            ELSE Raise("TypeError")
      [] op = "&&" -> Ok(IF Truthy(left_val) THEN right_val ELSE left_val)
      [] op = "||" -> Ok(IF Truthy(left_val) THEN left_val ELSE right_val)
      [] OTHER -> Raise("NotImplementedError")

\* evaluate, unary_minus and not branches
UnaryApply(op, value) ==
    IF op = "not" THEN Ok(BoolV(~Truthy(value)))
    ELSE IF IsNum(value) THEN Ok(Num(IF value.k = "float" THEN "float" ELSE "int",
                                     -value.n, value.d))
    ELSE Raise("TypeError")

-----------------------------------------------------------------------------
(* Scope management.  A frame is a function from the names it binds to     *)
(* their values.                                                           *)

EmptyFrame == [m \in {} |-> NoneV]

Bind(frame, name, value) ==
    [m \in (DOMAIN frame) \cup {name} |-> IF m = name THEN value ELSE frame[m]]

Builtins == {"print", "show", "input"}

\* Runtime.__init__: global_scope holds the input built-in
InitialGlobalScope == Bind(EmptyFrame, "input", BuiltinV(3))

BuiltinValue(name) ==
    CASE name = "print" -> BuiltinV(1)
      [] name = "show" -> BuiltinV(2)
      [] OTHER -> BuiltinV(3)

PushScope(stack) == Append(stack, EmptyFrame)

PopScope_any(stack) ==
    [sig |-> "ok", stack |-> SubSeq(stack, 1, Len(stack) - 1)]

\* pop_scope: [sig, stack]; popping the global scope is an internal error
PopScope(stack) ==
    IF Len(stack) <= 1 THEN [sig |-> "RuntimeError", stack |-> stack]
    ELSE [sig |-> "ok", stack |-> SubSeq(stack, 1, Len(stack) - 1)]

SetVariable_global(stack, name, value) ==
    [stack EXCEPT ![1] = Bind(@, name, value)]

SetVariable(stack, name, value) ==
    [stack EXCEPT ![Len(stack)] = Bind(@, name, value)]

\* index of the innermost frame that binds name, 0 when no frame does
FindScope(stack, name) ==
    LET holders == {i \in 1..Len(stack) : name \in DOMAIN stack[i]}
    IN IF holders = {} THEN 0 ELSE CHOOSE i \in holders : \A j \in holders : j <= i

IsBound(stack, name) == FindScope(stack, name) # 0

UpdateVariable_create(stack, name, value) ==
    LET i == FindScope(stack, name)
    IN IF i = 0 THEN [sig |-> "NameError", stack |-> SetVariable_global(stack, name, value)]
       ELSE [sig |-> "ok", stack |-> [stack EXCEPT ![i] = Bind(@, name, value)]]

\* update_variable: [sig, stack]
UpdateVariable(stack, name, value) ==
    LET i == FindScope(stack, name)
    IN IF i = 0 THEN [sig |-> "NameError", stack |-> stack]
       ELSE [sig |-> "ok", stack |-> [stack EXCEPT ![i] = Bind(@, name, value)]]

GetVariable_outermost(stack, name) ==
    LET holders == {i \in 1..Len(stack) : name \in DOMAIN stack[i]}
    IN IF holders # {}
       THEN Ok(stack[CHOOSE i \in holders : \A j \in holders : i <= j][name])
       ELSE IF name \in Builtins THEN Ok(BuiltinValue(name))
       ELSE Raise("NameError")

\* get_variable: the frames innermost first, then the built-in table
GetVariable(stack, name) ==
    LET i == FindScope(stack, name)
    IN IF i # 0 THEN Ok(stack[i][name])
       ELSE IF name \in Builtins THEN Ok(BuiltinValue(name))
       ELSE Raise("NameError")

-----------------------------------------------------------------------------
(* AST nodes, as src/src/parser.py builds them.  A tuple ('tag', a, b) is  *)
(* the record [node |-> "tag", ...]; a missing optional part (None) is     *)
(* NoneAst.                                                                *)

NoneAst == [node |-> "none"]

Lit(v) == [node |-> "literal", value |-> v]

Id(name) == [node |-> "identifier", name |-> name]

AssignAst(name, e) == [node |-> "assign", name |-> name, value |-> e]

Binop(op, l, r) == [node |-> "binop", op |-> op, left |-> l, right |-> r]

IsAst(l, r) == [node |-> "is", left |-> l, right |-> r]

UnaryMinus(e) == [node |-> "unary_minus", value |-> e]

Not(e) == [node |-> "not", value |-> e]

Reference(name) == [node |-> "reference", name |-> name]

Call(name, args) == [node |-> "call", name |-> name, args |-> args]

\* p_interpolated_string: the parts are literals and expressions
Interp(parts) == [node |-> "interpolated_string", parts |-> parts]

VarDecl(kw, name, e) == [node |-> "var_decl", kw |-> kw, name |-> name, expr |-> e]

FunDecl(name, params, body) ==
    [node |-> "fun_decl", name |-> name, params |-> params, body |-> body]

Show(e, status) == [node |-> "show", value |-> e, status |-> status]

PrintStmt(e, status) == [node |-> "print", value |-> e, status |-> status]

If(cond, then, else) == [node |-> "if", cond |-> cond, then |-> then, else |-> else]

When(x, y, then, else) ==
    [node |-> "when", x |-> x, y |-> y, then |-> then, else |-> else]

While(cond, body) == [node |-> "while", cond |-> cond, body |-> body]

Return(e) == [node |-> "return", value |-> e]

Block(stmts) == [node |-> "block", stmts |-> stmts]

\* p_expression_stmt: an assignment or a call used as a statement is the
\* statement itself, any other expression is wrapped
ExpressionStmt(e) ==
    IF e.node \in {"assign", "call", "member"} THEN e
    ELSE [node |-> "expression_stmt", expr |-> e]

\* the declaration keywords of p_variable_decl whose right side is a plain
\* expression; "ref" takes a ref_expression
DeclKeywords ==
    {"let", "take", "hold", "put", "sum", "diff", "prod", "div", "mod", "text",
     "concat", "slice", "len", "list", "arr", "append", "remove", "map", "key",
     "value", "current", "now", "year", "month", "day", "hour", "minute",
     "second", "store", "box"}

-----------------------------------------------------------------------------
(* execute_block's bookkeeping for the names it carries out of a block.    *)

TrackedNames == {"new_money"}

\* lines 543-548: the tracked names the frame under the block binds on entry
TrackedOnEntry(original_scope) ==
    [v \in TrackedNames \cap DOMAIN original_scope |-> original_scope[v]]

\* lines 560-568, reached only when every statement of the block completed:
\* the block's own frame overrides and extends the tracked values
TrackedOnCompletion(tracked, current_scope) ==
    [v \in (DOMAIN tracked) \cup (TrackedNames \cap DOMAIN current_scope) |->
        IF v \in DOMAIN current_scope THEN current_scope[v] ELSE tracked[v]]

RECURSIVE WriteTracked(_, _, _)
\* lines 574-575: original_scope[var] = value for every tracked name
WriteTracked(stack, orig, tracked) ==
    IF DOMAIN tracked = {} THEN stack
    ELSE LET v == CHOOSE w \in DOMAIN tracked : TRUE
             rest == [w \in (DOMAIN tracked) \ {v} |-> tracked[w]]
         IN WriteTracked([stack EXCEPT ![orig] = Bind(@, v, tracked[v])], orig, rest)

\* the finally clause of execute_block, [sig, stack]: pop the block's frame,
\* then write the tracked names into the frame that was current when the
\* block was entered
BlockFinally(stack, orig, tracked) ==
    LET p == PopScope(stack)
    IN IF p.sig # "ok" THEN p
       ELSE [sig |-> "ok", stack |-> WriteTracked(p.stack, orig, tracked)]

-----------------------------------------------------------------------------
(* The interpreter's position.  An entry of `control` is one pending call: *)
(* [c |-> "stmt", ast] is execute_statement(ast), [c |-> "eval", ast] is   *)
(* evaluate(ast), [c |-> "block", ast] is execute_block(ast); the other    *)
(* entries are the rest of a Python function that is waiting for the value *)
(* of a sub-expression or for the end of a block.                          *)

Stmt(ast) == [c |-> "stmt", ast |-> ast]

Eval(ast) == [c |-> "eval", ast |-> ast]

RECURSIVE MapSeq(_, _)
MapSeq(Op(_), seq) ==
    IF seq = <<>> THEN <<>> ELSE <<Op(Head(seq))>> \o MapSeq(Op, Tail(seq))

Top(stack) == stack[Len(stack)]

Pop(stack) == SubSeq(stack, 1, Len(stack) - 1)

Running == phase = "running"

\* the interpreter is about to run a pending entry of kind c, no exception in flight
At(c) == Running /\ sig = "ok" /\ control # <<>> /\ Head(control).c = c

AtStmt(node) == At("stmt") /\ Head(control).ast.node = node

AtEval(node) == At("eval") /\ Head(control).ast.node = node

Did(op, name) == last' = [op |-> op, name |-> name]

-----------------------------------------------------------------------------
(* execute_statement                                                       *)

\* var_decl, line 449-450: evaluate the expression first
StmtVarDecl ==
    /\ AtStmt("var_decl")
    /\ LET s == Head(control).ast
       IN /\ control' = <<Eval(s.expr), [c |-> "var_decl", name |-> s.name, kw |-> s.kw]>>
                          \o Tail(control)
          /\ Did("StmtVarDecl", s.name)
    /\ UNCHANGED <<scope_stack, functions, vals, sig, retval, out, diag, warn,
                   phase, runs, program>>
    /\ UNCHANGED front

\* var_decl, lines 452-455: warn on a redeclaration, bind in the current scope
DoVarDecl ==
    /\ At("var_decl")
    /\ LET name == Head(control).name
       IN /\ warn' = IF name \in DOMAIN Top(scope_stack)
                     THEN Append(warn, "redeclared") ELSE warn
          /\ scope_stack' = SetVariable(scope_stack, name, Top(vals))
          /\ Did("DoVarDecl", name)
    /\ vals' = Pop(vals)
    /\ control' = Tail(control)
    /\ UNCHANGED <<functions, sig, retval, out, diag, phase, runs, program>>
    /\ UNCHANGED front

\* assign as a statement, lines 458-459
StmtAssign ==
    /\ AtStmt("assign")
    /\ LET s == Head(control).ast
       IN /\ control' = <<Eval(s.value), [c |-> "assign_stmt", name |-> s.name]>>
                          \o Tail(control)
          /\ Did("StmtAssign", s.name)
    /\ UNCHANGED <<scope_stack, functions, vals, sig, retval, out, diag, warn,
                   phase, runs, program>>
    /\ UNCHANGED front

\* assign as a statement, line 461: update_variable, whose NameError propagates
DoAssignStmt ==
    /\ At("assign_stmt")
    /\ LET name == Head(control).name
           r == UpdateVariable(scope_stack, name, Top(vals))
       IN /\ scope_stack' = r.stack
          /\ sig' = r.sig
          /\ Did("DoAssignStmt", name)
    /\ vals' = Pop(vals)
    /\ control' = Tail(control)
    /\ UNCHANGED <<functions, retval, out, diag, warn, phase, runs, program>>
    /\ UNCHANGED front

DefineFunction_keepFirst(table, name, params, body) ==
    IF name \in Builtins
    THEN [sig |-> "NameError", functions |-> table, redefined |-> FALSE]
    ELSE IF name \in DOMAIN table
    THEN [sig |-> "ok", functions |-> table, redefined |-> TRUE]
    ELSE [sig |-> "ok",
          functions |-> Bind(table, name, [params |-> params, body |-> body]),
          redefined |-> FALSE]

\* define_function: [sig, functions, redefined]
DefineFunction(table, name, params, body) ==
    IF name \in Builtins
    THEN [sig |-> "NameError", functions |-> table, redefined |-> FALSE]
    ELSE [sig |-> "ok",
          functions |-> Bind(table, name, [params |-> params, body |-> body]),
          redefined |-> name \in DOMAIN table]

\* fun_decl, lines 479-481
StmtFunDecl ==
    /\ AtStmt("fun_decl")
    /\ LET s == Head(control).ast
           r == DefineFunction(functions, s.name, s.params, s.body)
       IN /\ functions' = r.functions
          /\ sig' = r.sig
          /\ warn' = IF r.redefined THEN Append(warn, "redefined") ELSE warn
          /\ Did("StmtFunDecl", s.name)
    /\ control' = Tail(control)
    /\ UNCHANGED <<scope_stack, vals, retval, out, diag, phase, runs, program>>
    /\ UNCHANGED front

\* show / print, lines 484-488: the value, then the status expression if any
StmtShow ==
    /\ AtStmt("show") \/ AtStmt("print")
    /\ LET s == Head(control).ast
           status == IF s.status.node = "none" THEN <<>>
                     ELSE <<Eval(s.status), [c |-> "discard"]>>
       IN /\ control' = <<Eval(s.value)>> \o status \o <<[c |-> "show", builtin |-> s.node]>>
                          \o Tail(control)
          /\ Did("StmtShow", s.node)
    /\ UNCHANGED <<scope_stack, functions, vals, sig, retval, out, diag, warn,
                   phase, runs, program>>
    /\ UNCHANGED front

\* show / print, line 492: the built-in writes the value
DoShow ==
    /\ At("show")
    /\ out' = Append(out, <<Top(vals)>>)
    /\ vals' = Pop(vals)
    /\ control' = Tail(control)
    /\ Did("DoShow", Head(control).builtin)
    /\ UNCHANGED <<scope_stack, functions, sig, retval, diag, warn, phase, runs, program>>
    /\ UNCHANGED front

\* the value of an expression is dropped (status expression, call statement,
\* expression statement)
DoDiscard ==
    /\ At("discard")
    /\ vals' = Pop(vals)
    /\ control' = Tail(control)
    /\ Did("DoDiscard", "")
    /\ UNCHANGED <<scope_stack, functions, sig, retval, out, diag, warn,
                   phase, runs, program>>
    /\ UNCHANGED front

\* if, lines 495-496
StmtIf ==
    /\ AtStmt("if")
    /\ LET s == Head(control).ast
       IN control' = <<Eval(s.cond), [c |-> "if", then |-> s.then, else |-> s.else]>>
                       \o Tail(control)
    /\ Did("StmtIf", "")
    /\ UNCHANGED <<scope_stack, functions, vals, sig, retval, out, diag, warn,
                   phase, runs, program>>
    /\ UNCHANGED front

\* if, lines 497-504: the then block on a truthy condition, otherwise the
\* else part, an 'if' node (else if) as a statement and anything else as a block
DoIf ==
    /\ At("if")
    /\ LET h == Head(control)
           branch == IF Truthy(Top(vals)) THEN <<[c |-> "block", ast |-> h.then]>>
                     ELSE IF h.else.node = "none" THEN <<>>
                     ELSE IF h.else.node = "if" THEN <<Stmt(h.else)>>
                     ELSE <<[c |-> "block", ast |-> h.else]>>
       IN control' = branch \o Tail(control)
    /\ vals' = Pop(vals)
    /\ Did("DoIf", "")
    /\ UNCHANGED <<scope_stack, functions, sig, retval, out, diag, warn,
                   phase, runs, program>>
    /\ UNCHANGED front

\* while, lines 507-508: the condition is evaluated before the first iteration
StmtWhile ==
    /\ AtStmt("while")
    /\ LET s == Head(control).ast
       IN control' = <<Eval(s.cond), [c |-> "while_test", cond |-> s.cond, body |-> s.body]>>
                       \o Tail(control)
    /\ Did("StmtWhile", "")
    /\ UNCHANGED <<scope_stack, functions, vals, sig, retval, out, diag, warn,
                   phase, runs, program>>
    /\ UNCHANGED front

DoWhileTest_negated ==
    /\ At("while_test")
    /\ LET h == Head(control)
       IN control' = (IF ~Truthy(Top(vals))
                      THEN <<[c |-> "block", ast |-> h.body],
                             [c |-> "while_body", cond |-> h.cond, body |-> h.body]>>
                      ELSE <<>>) \o Tail(control)
    /\ vals' = Pop(vals)
    /\ Did("DoWhileTest", "")
    /\ UNCHANGED <<scope_stack, functions, sig, retval, out, diag, warn,
                   phase, runs, program>>
    /\ UNCHANGED front

\* while, lines 508-510: run the body when the condition is truthy, leave the
\* loop otherwise
DoWhileTest ==
    /\ At("while_test")
    /\ LET h == Head(control)
       IN control' = (IF Truthy(Top(vals))
                      THEN <<[c |-> "block", ast |-> h.body],
                             [c |-> "while_body", cond |-> h.cond, body |-> h.body]>>
                      ELSE <<>>) \o Tail(control)
    /\ vals' = Pop(vals)
    /\ Did("DoWhileTest", "")
    /\ UNCHANGED <<scope_stack, functions, sig, retval, out, diag, warn,
                   phase, runs, program>>
    /\ UNCHANGED front

\* while, line 508 again: the body completed, the condition is re-evaluated
DoWhileBody ==
    /\ At("while_body")
    /\ LET h == Head(control)
       IN control' = <<Eval(h.cond), [c |-> "while_test", cond |-> h.cond, body |-> h.body]>>
                       \o Tail(control)
    /\ Did("DoWhileBody", "")
    /\ UNCHANGED <<scope_stack, functions, vals, sig, retval, out, diag, warn,
                   phase, runs, program>>
    /\ UNCHANGED front

\* block as a statement, lines 516-517
StmtBlock ==
    /\ AtStmt("block")
    /\ control' = <<[c |-> "block", ast |-> Head(control).ast]>> \o Tail(control)
    /\ Did("StmtBlock", "")
    /\ UNCHANGED <<scope_stack, functions, vals, sig, retval, out, diag, warn,
                   phase, runs, program>>
    /\ UNCHANGED front

\* return, lines 520-522: without a value ReturnSignal(None) is raised at once
StmtReturn ==
    /\ AtStmt("return")
    /\ LET s == Head(control).ast
       IN IF s.value.node = "none"
          THEN /\ sig' = "return"
               /\ retval' = NoneV
               /\ control' = Tail(control)
          ELSE /\ control' = <<Eval(s.value), [c |-> "return"]>> \o Tail(control)
               /\ UNCHANGED <<sig, retval>>
    /\ Did("StmtReturn", "")
    /\ UNCHANGED <<scope_stack, functions, vals, out, diag, warn, phase, runs, program>>
    /\ UNCHANGED front

\* return, line 522: raise ReturnSignal(return_value)
DoReturn ==
    /\ At("return")
    /\ sig' = "return"
    /\ retval' = Top(vals)
    /\ vals' = Pop(vals)
    /\ control' = Tail(control)
    /\ Did("DoReturn", "")
    /\ UNCHANGED <<scope_stack, functions, out, diag, warn, phase, runs, program>>
    /\ UNCHANGED front

\* call as a statement (lines 524-526) and expression_stmt (lines 528-530):
\* evaluate and drop the value
StmtExpression ==
    /\ AtStmt("call") \/ AtStmt("expression_stmt")
    /\ LET s == Head(control).ast
       IN control' = <<Eval(IF s.node = "call" THEN s ELSE s.expr), [c |-> "discard"]>>
                       \o Tail(control)
    /\ Did("StmtExpression", Head(control).ast.node)
    /\ UNCHANGED <<scope_stack, functions, vals, sig, retval, out, diag, warn,
                   phase, runs, program>>
    /\ UNCHANGED front

StatementNodes ==
    {"var_decl", "assign", "fun_decl", "show", "print", "if", "while", "block",
     "return", "call", "expression_stmt"}

\* lines 532-533: any other statement node gets a warning and is skipped
StmtOther ==
    /\ At("stmt")
    /\ Head(control).ast.node \notin StatementNodes
    /\ warn' = Append(warn, "not implemented")
    /\ control' = Tail(control)
    /\ Did("StmtOther", Head(control).ast.node)
    /\ UNCHANGED <<scope_stack, functions, vals, sig, retval, out, diag,
                   phase, runs, program>>
    /\ UNCHANGED front

-----------------------------------------------------------------------------
(* execute_block                                                           *)

\* lines 537-558: a node that is no block is reported and skipped; otherwise
\* the tracked names are read from the current frame, a frame is pushed and
\* the statements are run
BlockEnter ==
    /\ At("block")
    /\ LET b == Head(control).ast
       IN IF b.node # "block"
          THEN /\ diag' = Append(diag, "not a block")
               /\ control' = Tail(control)
               /\ UNCHANGED scope_stack
          ELSE /\ scope_stack' = PushScope(scope_stack)
               /\ control' = MapSeq(Stmt, b.stmts)
                               \o <<[c |-> "block_exit", orig |-> Len(scope_stack),
                                     tracked |-> TrackedOnEntry(Top(scope_stack))]>>
                               \o Tail(control)
               /\ UNCHANGED diag
    /\ Did("BlockEnter", "")
    /\ UNCHANGED <<functions, vals, sig, retval, out, warn, phase, runs, program>>
    /\ UNCHANGED front

BlockExit_scopedFunctions ==
    /\ Running
    /\ control # <<>>
    /\ Head(control).c = "block_exit"
    /\ LET h == Head(control)
           tracked == IF sig = "ok" THEN TrackedOnCompletion(h.tracked, Top(scope_stack))
                      ELSE h.tracked
           r == BlockFinally(scope_stack, h.orig, tracked)
       IN /\ scope_stack' = r.stack
          /\ sig' = IF r.sig # "ok" THEN r.sig ELSE sig
    /\ control' = Tail(control)
    /\ functions' = IF Len(scope_stack) > 2 THEN [m \in {} |-> NoneV] ELSE functions
    /\ Did("BlockExit", sig)
    /\ UNCHANGED <<vals, retval, out, diag, warn, phase, runs, program>>
    /\ UNCHANGED front

\* lines 560-575: after the last statement the tracked names are refreshed
\* from the block's frame; the finally clause runs on every exit
BlockExit ==
    /\ Running
    /\ control # <<>>
    /\ Head(control).c = "block_exit"
    /\ LET h == Head(control)
           tracked == IF sig = "ok" THEN TrackedOnCompletion(h.tracked, Top(scope_stack))
                      ELSE h.tracked
           r == BlockFinally(scope_stack, h.orig, tracked)
       IN /\ scope_stack' = r.stack
          /\ sig' = IF r.sig # "ok" THEN r.sig ELSE sig
    /\ control' = Tail(control)
    /\ Did("BlockExit", sig)
    /\ UNCHANGED <<functions, vals, retval, out, diag, warn, phase, runs, program>>
    /\ UNCHANGED front

-----------------------------------------------------------------------------
(* evaluate                                                                *)

\* literal, lines 204-205
EvalLiteral ==
    /\ AtEval("literal")
    /\ vals' = Append(vals, Head(control).ast.value)
    /\ control' = Tail(control)
    /\ Did("EvalLiteral", "")
    /\ UNCHANGED <<scope_stack, functions, sig, retval, out, diag, warn,
                   phase, runs, program>>
    /\ UNCHANGED front

\* identifier, lines 207-208
EvalIdentifier ==
    /\ AtEval("identifier")
    /\ LET name == Head(control).ast.name
           r == GetVariable(scope_stack, name)
       IN /\ sig' = r.sig
          /\ vals' = IF r.sig = "ok" THEN Append(vals, r.val) ELSE vals
          /\ Did("EvalIdentifier", name)
    /\ control' = Tail(control)
    /\ UNCHANGED <<scope_stack, functions, retval, out, diag, warn, phase, runs, program>>
    /\ UNCHANGED front

\* assign as an expression, lines 211-212
EvalAssign ==
    /\ AtEval("assign")
    /\ LET e == Head(control).ast
       IN /\ control' = <<Eval(e.value), [c |-> "assign_expr", name |-> e.name]>>
                          \o Tail(control)
          /\ Did("EvalAssign", e.name)
    /\ UNCHANGED <<scope_stack, functions, vals, sig, retval, out, diag, warn,
                   phase, runs, program>>
    /\ UNCHANGED front

\* lines 216-219: update_variable, and set_variable when it raises NameError
UpdateOrSet(stack, name, value) ==
    LET r == UpdateVariable(stack, name, value)
    IN IF r.sig = "NameError" THEN SetVariable(stack, name, value) ELSE r.stack

\* assign as an expression, lines 216-220: the value stays the result
DoAssignExpr ==
    /\ At("assign_expr")
    /\ scope_stack' = UpdateOrSet(scope_stack, Head(control).name, Top(vals))
    /\ control' = Tail(control)
    /\ Did("DoAssignExpr", Head(control).name)
    /\ UNCHANGED <<functions, vals, sig, retval, out, diag, warn, phase, runs, program>>
    /\ UNCHANGED front

\* binop, lines 223-224: the left operand first
EvalBinop ==
    /\ AtEval("binop")
    /\ LET e == Head(control).ast
       IN /\ control' = <<Eval(e.left), [c |-> "binop_right", op |-> e.op, right |-> e.right]>>
                          \o Tail(control)
          /\ Did("EvalBinop", e.op)
    /\ UNCHANGED <<scope_stack, functions, vals, sig, retval, out, diag, warn,
                   phase, runs, program>>
    /\ UNCHANGED front

\* line 225: whether evaluate goes on to the right operand once the left
\* one has the value left_val; it does for every operator
EvaluatesRight(op, left_val) == TRUE

\* binop, line 225: the right operand
DoBinopRight ==
    /\ At("binop_right")
    /\ LET h == Head(control)
       IN /\ control' = (IF EvaluatesRight(h.op, Top(vals))
                         THEN <<Eval(h.right), [c |-> "binop_apply", op |-> h.op]>>
                         ELSE <<>>) \o Tail(control)
          /\ Did("DoBinopRight", h.op)
    /\ UNCHANGED <<scope_stack, functions, vals, sig, retval, out, diag, warn,
                   phase, runs, program>>
    /\ UNCHANGED front

\* binop, lines 227-252: apply the operator to the two values
DoBinopApply ==
    /\ At("binop_apply")
    /\ LET op == Head(control).op
           right_val == Top(vals)
           left_val == Top(Pop(vals))
           r == BinopApply(op, left_val, right_val)
       IN /\ sig' = r.sig
          /\ vals' = IF r.sig = "ok" THEN Append(Pop(Pop(vals)), r.val) ELSE Pop(Pop(vals))
          /\ Did("DoBinopApply", op)
    /\ control' = Tail(control)
    /\ UNCHANGED <<scope_stack, functions, retval, out, diag, warn, phase, runs, program>>
    /\ UNCHANGED front

\* unary_minus and not, lines 254-260: the operand
EvalUnary ==
    /\ AtEval("unary_minus") \/ AtEval("not")
    /\ LET e == Head(control).ast
       IN /\ control' = <<Eval(e.value), [c |-> "unary", op |-> e.node]>> \o Tail(control)
          /\ Did("EvalUnary", e.node)
    /\ UNCHANGED <<scope_stack, functions, vals, sig, retval, out, diag, warn,
                   phase, runs, program>>
    /\ UNCHANGED front

DoUnary ==
    /\ At("unary")
    /\ LET r == UnaryApply(Head(control).op, Top(vals))
       IN /\ sig' = r.sig
          /\ vals' = IF r.sig = "ok" THEN Append(Pop(vals), r.val) ELSE Pop(vals)
    /\ control' = Tail(control)
    /\ Did("DoUnary", Head(control).op)
    /\ UNCHANGED <<scope_stack, functions, retval, out, diag, warn, phase, runs, program>>
    /\ UNCHANGED front

\* call, lines 263-264: the arguments, left to right
EvalCall ==
    /\ AtEval("call")
    /\ LET e == Head(control).ast
       IN /\ control' = MapSeq(Eval, e.args)
                          \o <<[c |-> "call", name |-> e.name, nargs |-> Len(e.args)]>>
                          \o Tail(control)
          /\ Did("EvalCall", e.name)
    /\ UNCHANGED <<scope_stack, functions, vals, sig, retval, out, diag, warn,
                   phase, runs, program>>
    /\ UNCHANGED front

\* interpolated_string, lines 268-272: each part is evaluated and turned
\* into text before the next one is evaluated
RECURSIVE InterpSchedule(_)
InterpSchedule(parts) ==
    IF parts = <<>> THEN <<>>
    ELSE <<Eval(Head(parts)), [c |-> "interp_str"]>> \o InterpSchedule(Tail(parts))

EvalInterp ==
    /\ AtEval("interpolated_string")
    /\ LET e == Head(control).ast
       IN control' = InterpSchedule(e.parts)
                        \o <<[c |-> "interp_join", nparts |-> Len(e.parts)]>>
                        \o Tail(control)
    /\ Did("EvalInterp", "")
    /\ UNCHANGED <<scope_stack, functions, vals, sig, retval, out, diag, warn,
                   phase, runs, program>>
    /\ UNCHANGED front

\* line 272: result.append(str(evaluated_part))
DoInterpStr ==
    /\ At("interp_str")
    /\ vals' = Append(Pop(vals), StrV(Str(Top(vals))))
    /\ control' = Tail(control)
    /\ Did("DoInterpStr", "")
    /\ UNCHANGED <<scope_stack, functions, sig, retval, out, diag, warn,
                   phase, runs, program>>
    /\ UNCHANGED front

JoinParts_reversed(texts) ==
    IF texts = <<>> THEN <<>>
    ELSE LET n == Len(texts)
             Rev[i \in 0..n] == IF i = 0 THEN <<>> ELSE texts[i] \o Rev[i - 1]
         IN Rev[n]

\* "".join(result)
RECURSIVE JoinParts(_)
JoinParts(texts) ==
    IF texts = <<>> THEN <<>> ELSE Head(texts) \o JoinParts(Tail(texts))

\* line 273: the value of the interpolated string
DoInterpJoin ==
    /\ At("interp_join")
    /\ LET n == Head(control).nparts
           base == Len(vals) - n
           result == [i \in 1..n |-> vals[base + i].s]
       IN vals' = Append(SubSeq(vals, 1, base), StrV(JoinParts(result)))
    /\ control' = Tail(control)
    /\ Did("DoInterpJoin", "")
    /\ UNCHANGED <<scope_stack, functions, sig, retval, out, diag, warn,
                   phase, runs, program>>
    /\ UNCHANGED front

ExpressionNodes ==
    {"literal", "identifier", "assign", "binop", "unary_minus", "not", "call",
     "interpolated_string"}

\* nodes evaluate has a branch for that this model leaves out: no program
\* of the model holds one
UnmodelledNodes == {"none", "m", "and", "or", "o", "map"}

\* lines 437-438: a node evaluate has no branch for
EvalOther ==
    /\ At("eval")
    /\ Head(control).ast.node \notin ExpressionNodes \cup UnmodelledNodes
    /\ sig' = "NotImplementedError"
    /\ control' = Tail(control)
    /\ Did("EvalOther", Head(control).ast.node)
    /\ UNCHANGED <<scope_stack, functions, vals, retval, out, diag, warn,
                   phase, runs, program>>
    /\ UNCHANGED front

-----------------------------------------------------------------------------
(* _call_function                                                          *)

CallScope_none(stack, params, args) == stack

\* lines 129-134: local_scope is filled with the parameters and arguments,
\* but the frame push_scope() puts on the stack is a new empty one;
\* local_scope is never pushed or read
CallScope(stack, params, args) == PushScope(stack)

ArityMatches_atMost(args, params) == Len(args) <= Len(params)

\* line 125: the arity check
ArityMatches(args, params) == Len(args) = Len(params)

\* lines 112-149, up to the execution of the body
DoCall ==
    /\ At("call")
    /\ LET h == Head(control)
           base == Len(vals) - h.nargs
           args == SubSeq(vals, base + 1, Len(vals))
           below == SubSeq(vals, 1, base)
       IN /\ Did("DoCall", h.name)
          /\ IF h.name \in Builtins
             THEN \* lines 113-116, print and show: write the arguments, return None
                  /\ h.name # "input"
                  /\ out' = Append(out, args)
                  /\ vals' = Append(below, NoneV)
                  /\ control' = Tail(control)
                  /\ UNCHANGED <<scope_stack, sig>>
             ELSE IF h.name \in DOMAIN functions
             THEN LET f == functions[h.name]
                  IN IF ~ArityMatches(args, f.params)
                     THEN \* lines 125-126
                          /\ sig' = "TypeError"
                          /\ vals' = below
                          /\ control' = Tail(control)
                          /\ UNCHANGED <<scope_stack, out>>
                     ELSE \* lines 129-139
                          /\ scope_stack' = CallScope(scope_stack, f.params, args)
                          /\ vals' = below
                          /\ control' = <<[c |-> "block", ast |-> f.body],
                                          [c |-> "call_exit", base |-> base]>>
                                          \o Tail(control)
                          /\ UNCHANGED <<sig, out>>
             ELSE \* line 149
                  /\ sig' = "NameError"
                  /\ vals' = below
                  /\ control' = Tail(control)
                  /\ UNCHANGED <<scope_stack, out>>
    /\ UNCHANGED <<functions, retval, diag, warn, phase, runs, program>>
    /\ UNCHANGED front

\* lines 140-146: a ReturnSignal is caught and its value returned, any other
\* exception goes on; the frame is popped in each case (finally); a body that
\* ends without return yields None
CallExit ==
    /\ Running
    /\ control # <<>>
    /\ Head(control).c = "call_exit"
    /\ LET base == Head(control).base
           p == PopScope(scope_stack)
       IN /\ scope_stack' = p.stack
          /\ CASE p.sig # "ok" -> /\ sig' = p.sig
                                  /\ UNCHANGED vals
               [] sig = "ok" -> /\ vals' = Append(vals, NoneV)
                                /\ UNCHANGED sig
               [] sig = "return" -> /\ vals' = Append(SubSeq(vals, 1, base), retval)
                                    /\ sig' = "ok"
               [] OTHER -> UNCHANGED <<vals, sig>>
    /\ control' = Tail(control)
    /\ Did("CallExit", sig)
    /\ UNCHANGED <<functions, retval, out, diag, warn, phase, runs, program>>
    /\ UNCHANGED front

-----------------------------------------------------------------------------
(* Exceptions in flight                                                    *)

WhileReraise_swallow(signal) == "ok"

\* line 511-513: the while statement catches a ReturnSignal raised by its
\* body and raises it again
WhileReraise(signal) == signal

\* an exception leaves a pending call that has no handler for it; the
\* handlers are the finally clauses of execute_block and _call_function
Unwind ==
    /\ Running
    /\ sig # "ok"
    /\ control # <<>>
    /\ Head(control).c \notin {"block_exit", "call_exit"}
    /\ sig' = IF Head(control).c = "while_body" /\ sig = "return"
              THEN WhileReraise(sig) ELSE sig
    /\ control' = Tail(control)
    /\ Did("Unwind", Head(control).c)
    /\ UNCHANGED <<scope_stack, functions, vals, retval, out, diag, warn,
                   phase, runs, program>>
    /\ UNCHANGED front

-----------------------------------------------------------------------------
(* The programs run_program is handed: ASTs the parser can build, over a   *)
(* few names and literals.                                                 *)

VarNames == {"x", "new_money"}

IntLits == {IntV(i) : i \in 0..MaxLit}

Lits == IntLits \cup {NoneV, BoolV(TRUE), BoolV(FALSE)}

N(i) == Lit(IntV(i))

\* a statement placed where control must never arrive
Dead == Show(Lit(IntV(-1)), NoneAst)

ShowE(e) == Show(e, NoneAst)

Let(name, e) == VarDecl("let", name, e)

\* K name = v, then show name; also inside a block that shadows an outer name
DeclPrograms ==
    {<<VarDecl(kw, n, Lit(v)), ShowE(Id(n))>> :
        kw \in DeclKeywords, n \in VarNames, v \in IntLits}
    \cup {<<Let(n, N(0)), Block(<<VarDecl(kw, n, Lit(v)), ShowE(Id(n))>>), ShowE(Id(n))>> :
        kw \in {"let", "take", "box"}, n \in VarNames, v \in {IntV(1), NoneV}}
    \cup {<<VarDecl(kw, n, Binop("+", N(1), N(1))), VarDecl(kw, n, Id(n)), ShowE(Id(n))>> :
        kw \in {"sum", "put"}, n \in VarNames}
    \cup {<<Let("x", N(1)), VarDecl("ref", n, Reference("x")), ShowE(Id(n))>> :
        n \in VarNames}
    \cup {<<Let(n, Id("y")), ShowE(Id(n))>> : n \in VarNames}

\* a declaration inside a bare block, an if / while body or a function body,
\* then a lookup after the block
ScopePrograms ==
    UNION {
        {<<Block(<<Let(n, N(1))>>), ShowE(Id(n))>>,
         <<If(N(1), Block(<<Let(n, N(1))>>), NoneAst), ShowE(Id(n))>>,
         <<If(N(0), Block(<<>>), Block(<<Let(n, N(1))>>)), ShowE(Id(n))>>,
         <<Let("i", N(0)),
           While(Binop("<", Id("i"), N(1)),
                 Block(<<Let(n, N(1)), AssignAst("i", N(1))>>)),
           ShowE(Id(n))>>,
         <<FunDecl("f", <<>>, Block(<<Let(n, N(1))>>)), Call("f", <<>>), ShowE(Id(n))>>,
         <<Let(n, N(0)), Block(<<Let(n, N(1))>>), ShowE(Id(n))>>,
         <<Block(<<Let(n, N(2)), Block(<<Let(n, N(1))>>), ShowE(Id(n))>>), ShowE(Id(n))>>,
         <<Block(<<Let(n, N(1)), ShowE(Id("y"))>>), ShowE(Id(n))>>,
         <<FunDecl("f", <<>>, Block(<<Block(<<Let(n, N(1)), Return(N(2))>>)>>)),
           ShowE(Call("f", <<>>)), ShowE(Id(n))>>
        } : n \in VarNames}

Add == FunDecl("add", <<"a", "b">>,
               Block(<<Return(Binop("+", Id("a"), Id("b")))>>))

\* a call inside a block, with every pairing of 0..2 parameters and 0..2
\* arguments
ArityPrograms ==
    {<<FunDecl("f", ps, Block(<<ShowE(N(2))>>)), ShowE(N(1)),
       Block(<<ShowE(Call("f", args)), ShowE(N(0))>>), ShowE(N(0))>> :
        ps \in {<<>>, <<"a">>, <<"a", "b">>}, args \in {<<>>, <<N(1)>>, <<N(1), N(2)>>}}

\* a function defined twice, with the same and with another parameter list,
\* and a function given the name of a built-in
RedefinePrograms ==
    {<<FunDecl("f", ps, Block(<<Return(N(1))>>)),
       FunDecl("f", <<>>, Block(<<Return(N(2))>>)),
       ShowE(Call("f", <<>>))>> : ps \in {<<>>, <<"a">>}}
    \cup {<<FunDecl("f", <<>>, Block(<<Return(N(1))>>)),
            Block(<<FunDecl(b, <<>>, Block(<<Return(N(2))>>)), Dead>>),
            Dead>> : b \in Builtins}

\* user-defined functions: calls with the right and a wrong number of
\* arguments, undefined functions, redefinition
CallPrograms ==
    {<<Add, ShowE(Call("add", <<Lit(v), Lit(w)>>))>> : v, w \in IntLits}
    \cup {<<Let("a", N(0)), Let("b", N(0)), Add, ShowE(Call("add", <<N(1), N(2)>>))>>}
    \cup {<<FunDecl("f", <<"a">>, Block(<<ShowE(N(2))>>)), Call("f", args), ShowE(N(1))>> :
            args \in {<<>>, <<N(1)>>, <<N(1), N(2)>>}}
    \cup ArityPrograms
    \cup RedefinePrograms
    \cup {<<FunDecl("f", <<>>, Block(<<ShowE(N(2))>>)),
            Block(<<ShowE(Call("f", <<N(1)>>)), ShowE(N(0))>>), ShowE(N(1))>>}
    \cup {<<Call("g", <<>>), ShowE(N(1))>>,
          <<Call("print", <<N(1), N(2)>>)>>,
          <<FunDecl("print", <<>>, Block(<<>>)), ShowE(N(1))>>,
          <<Block(<<FunDecl("f", <<>>, Block(<<Return(N(1))>>))>>), ShowE(Call("f", <<>>))>>}

\* a return outside every function: among the top-level statements, in a
\* top-level block, in a top-level loop, and three levels deep
TopLevelReturnPrograms ==
    {<<ShowE(N(1)), Return(Lit(v)), Dead>> : v \in {IntV(1), NoneV}}
    \cup {<<Block(<<Return(NoneAst), Dead>>), Dead>>,
          <<While(N(1), Block(<<Return(N(1))>>)), Dead>>,
          <<ShowE(N(1)),
            Block(<<While(N(1), Block(<<If(N(1), Block(<<Return(N(1)), Dead>>), NoneAst),
                                        Dead>>)),
                    Dead>>),
            Dead>>,
          <<Let("new_money", N(0)), Block(<<Let("new_money", N(1)), Return(N(1))>>), Dead>>}

\* return at several depths of blocks and loops, with and without a value,
\* in nested calls and at top level
ReturnPrograms ==
    {<<FunDecl("f", <<>>,
               Block(<<While(N(1), Block(<<Block(<<Return(Lit(v)), Dead>>), Dead>>)),
                       Dead>>)),
       ShowE(Call("f", <<>>)), ShowE(N(1))>> : v \in Lits}
    \cup {<<FunDecl("f", <<>>, Block(<<ShowE(N(0))>>)), ShowE(Call("f", <<>>))>>,
          <<FunDecl("f", <<>>, Block(<<Return(NoneAst), Dead>>)),
            ShowE(Call("f", <<>>))>>,
          <<FunDecl("g", <<>>, Block(<<If(N(1), Block(<<Return(N(1))>>), NoneAst),
                                       Dead>>)),
            FunDecl("f", <<>>, Block(<<Let("t", Call("g", <<>>)), ShowE(Id("t")),
                                       Return(N(0)), Dead>>)),
            ShowE(Binop("+", Call("f", <<>>), N(1)))>>,
          <<ShowE(N(1)), Return(N(1)), Dead>>}
    \cup TopLevelReturnPrograms

\* every binary operator on a few literal operands; operands with a side
\* effect or an error on the right of && and ||
OperatorPrograms ==
    {<<Let("z", Binop(op, Lit(l), Lit(r))), ShowE(Id("z"))>> :
        op \in BinOps, l \in {IntV(0), IntV(2), NoneV}, r \in Lits}
    \cup {<<Let("z", Binop(op, N(2), r)), Dead>> :
        op \in {"/", "%"},
        r \in {N(0), Binop("-", N(1), N(1)), Binop("/", N(0), N(2)), UnaryMinus(N(0))}}
    \cup {<<ShowE(Binop("+", N(1), Binop("/", N(1), N(2)))),
            ShowE(Binop("<", Binop("/", N(1), N(2)), N(1))),
            ShowE(Binop("%", UnaryMinus(N(1)), N(2)))>>,
          <<ShowE(UnaryMinus(Lit(NoneV)))>>,
          <<ShowE(Not(N(0))), ShowE(Not(Id("input")))>>,
          <<ShowE(Not(Id("print"))), Block(<<ShowE(Not(Id("show")))>>)>>,
          <<Show(N(1), N(2)), PrintStmt(N(2), NoneAst)>>,
          <<ShowE(IsAst(N(1), N(1))), ShowE(N(1))>>,
          <<ExpressionStmt(Binop("+", N(1), N(1))), ExpressionStmt(Id("y")), ShowE(N(1))>>}
    \cup {<<Let("x", N(0)), ShowE(Binop(op, Lit(l), AssignAst("x", N(1)))), ShowE(Id("x"))>> :
        op \in {"&&", "||"}, l \in Lits}
    \cup {<<ShowE(Binop(op, Lit(l), r)), ShowE(N(1))>> :
        op \in {"&&", "||"}, l \in {IntV(0), IntV(1)},
        r \in {Id("y"), Binop("/", N(1), N(0))}}

\* errors raised at top level, inside blocks and inside calls, with
\* statements after the failing one at every level
ErrorPrograms ==
    {<<ShowE(N(1)), Block(<<Block(<<e, Dead>>), Dead>>), Dead>> :
        e \in {ShowE(Id("y")), ShowE(Binop("/", N(1), N(0))),
               ShowE(Binop("-", Lit(NoneV), N(1))), ShowE(Reference("x")),
               Call("g", <<>>)}}
    \cup {<<FunDecl("f", <<>>, Block(<<Let("new_money", N(1)), e, Dead>>)),
            Let("new_money", N(0)),
            Block(<<AssignAst("new_money", N(2)), Call("f", <<>>), Dead>>),
            Dead>> :
        e \in {ShowE(Id("y")), ShowE(Binop("%", N(1), N(0)))}}

\* when X is Y { show 1 } else ...
WhenPrograms ==
    {<<When(Lit(x), Lit(y), Block(<<ShowE(N(1))>>), else), ShowE(N(0))>> :
        x \in {IntV(0), IntV(1)}, y \in {IntV(0), IntV(1), BoolV(TRUE)},
        else \in {NoneAst, Block(<<ShowE(N(2))>>)}}
    \cup {<<If(N(0), Block(<<>>), When(N(1), N(1), Block(<<ShowE(N(1))>>), NoneAst)),
            ShowE(N(0))>>,
          <<If(N(0), Block(<<>>), If(N(1), Block(<<ShowE(N(1))>>), NoneAst))>>}

\* assignments, as statements and inside expressions, to bound and unbound
\* names, at top level and inside blocks
AssignPrograms ==
    UNION {
        {<<AssignAst(n, N(1)), ShowE(Id(n))>>,
         <<Let(n, N(0)), AssignAst(n, N(1)), ShowE(Id(n))>>,
         <<Let(n, N(0)), Block(<<AssignAst(n, N(1)), ShowE(Id(n))>>), ShowE(Id(n))>>,
         <<ShowE(AssignAst(n, N(1))), ShowE(Id(n))>>,
         <<Let("z", N(0)), Block(<<Let("z", N(1)), AssignAst(n, N(1)), Dead>>), Dead>>,
         <<Block(<<ShowE(AssignAst(n, N(1))), ShowE(Id(n))>>), ShowE(Id(n))>>,
         <<Let("z", AssignAst(n, N(1))), ShowE(Binop("+", Id("z"), Id(n)))>>,
         <<Let(n, N(0)),
           Block(<<Let(n, N(1)), Block(<<ShowE(AssignAst(n, N(2)))>>), ShowE(Id(n))>>),
           ShowE(Id(n))>>,
         <<AssignAst("z", AssignAst(n, N(1))), ShowE(Id(n))>>,
         <<Let(n, N(0)),
           While(Binop("<", Id(n), N(2)), Block(<<AssignAst(n, Binop("+", Id(n), N(1)))>>)),
           ShowE(Id(n))>>,
         <<Let(n, N(0)),
           FunDecl("f", <<>>, Block(<<AssignAst(n, N(1)), Return(Id(n))>>)),
           ShowE(Call("f", <<>>)), ShowE(Id(n))>>
        } : n \in VarNames}

\* programs for a second run on the same Runtime: they read and write what
\* an earlier run may have left behind
RerunPrograms ==
    {<<ShowE(Id("x"))>>,
     <<ShowE(Id("new_money")), Let("new_money", N(2))>>,
     <<ShowE(Call("f", <<>>)), ShowE(N(0))>>,
     <<AssignAst("x", N(2)), ShowE(Id("x"))>>,
     <<Block(<<Let("x", N(1)), ShowE(Binop("/", N(1), N(0))), Dead>>), Dead>>,
     <<FunDecl("f", <<"a">>, Block(<<Return(N(2))>>)), ShowE(Call("f", <<N(1)>>))>>}

\* a str literal, written as its characters
S(chars) == Lit(StrV(chars))

\* x = x + 1 as an expression
Incr == AssignAst("x", Binop("+", Id("x"), N(1)))

\* the parts of the interpolated strings: a literal fragment and embedded
\* expressions of every kind of value
InterpParts ==
    {S(<<"a">>), N(1), Lit(IntV(12)), UnaryMinus(N(2)), Binop("/", N(1), N(2)),
     Binop("/", N(2), N(1)), Lit(BoolV(TRUE)), Lit(NoneV),
     Interp(<<N(0), S(<<"b">>)>>)}

\* show "..." with two parts; parts with side effects; no part; a part that
\* raises; str operands of the binary operators
InterpPrograms ==
    {<<ShowE(Interp(<<p1, p2>>)), ShowE(N(0))>> : p1, p2 \in InterpParts}
    \cup {<<Let("x", N(0)), ShowE(Interp(<<Incr, S(<<"a">>), Incr, Id("x")>>)),
            ShowE(Id("x"))>>,
          <<ShowE(Interp(<<>>)), ShowE(Not(Interp(<<>>)))>>,
          <<Let("x", N(0)), Block(<<ShowE(Interp(<<Incr, Id("y"), Incr>>))>>)>>,
          <<ShowE(Binop("+", S(<<"a">>), N(1))), ShowE(Binop("+", Lit(NoneV), S(<<"a">>))),
            ShowE(Binop("*", S(<<"a", "b">>), N(2))), ShowE(Binop("<", S(<<"a">>), S(<<"a", "b">>))),
            ShowE(Binop("==", S(<<"a">>), S(<<"a">>))), ShowE(Binop("%", S(<<"a">>), N(1)))>>}

\* f declared inside a block, and inside the body of g, and called after the
\* block and the call of g have exited
NestedFunPrograms ==
    {<<Block(<<Block(<<FunDecl("f", <<>>, Block(<<Return(N(1))>>))>>)>>),
       ShowE(Call("f", <<>>))>>,
     <<FunDecl("g", <<>>, Block(<<FunDecl("f", <<>>, Block(<<Return(N(2))>>))>>)),
       Call("g", <<>>),
       ShowE(Call("f", <<>>))>>}

\* (x = x + 1) < k: every evaluation of the condition counts itself in x
CountingCond(k) ==
    Binop("<", AssignAst("x", Binop("+", Id("x"), N(1))), N(k))

\* let x = 0  while (x = x + 1) < k { show x }  show x
WhileCount(k) ==
    <<Let("x", N(0)), While(CountingCond(k), Block(<<ShowE(Id("x"))>>)), ShowE(Id("x"))>>

\* let x = 0  fun f() { while (x = x + 1) < k { return 7 } show -1 }
\* show f()  show x
WhileReturn(k) ==
    <<Let("x", N(0)),
      FunDecl("f", <<>>, Block(<<While(CountingCond(k), Block(<<Return(N(7)), Dead>>)), Dead>>)),
      ShowE(Call("f", <<>>)), ShowE(Id("x"))>>

WhilePrograms == {WhileCount(k) : k \in 1..3} \cup {WhileReturn(k) : k \in 2..3}

Programs ==
    DeclPrograms \cup ScopePrograms \cup CallPrograms \cup ReturnPrograms
    \cup OperatorPrograms \cup ErrorPrograms \cup WhenPrograms \cup AssignPrograms
    \cup InterpPrograms \cup WhilePrograms \cup NestedFunPrograms

-----------------------------------------------------------------------------
(* run_program                                                             *)

\* the message report_error writes for the exception run_program caught
Report(signal) == IF signal = "return" THEN "return outside function" ELSE signal

Caught_errors(signal) == signal \in Errors

Caught_named(signal) == signal \in {"return", "NameError", "TypeError"}

\* lines 599-609: the except clauses of run_program; the last one is
\* `except Exception`, and every exception of the runtime derives from it
Caught(signal) == signal \in Errors \cup {"return"}

\* lines 588-598: the statements of the program, in the global scope context;
\* the first program run on a Runtime is any of Programs, a later one is one
\* of RerunPrograms
RunProgram(p) ==
    /\ phase = "idle"
    /\ runs < MaxRuns
    /\ p \in (IF runs = 0 THEN Programs ELSE RerunPrograms)
    /\ phase' = "running"
    /\ runs' = runs + 1
    /\ program' = p
    /\ control' = MapSeq(Stmt, p)
    /\ Did("RunProgram", "")
    /\ UNCHANGED <<scope_stack, functions, vals, sig, retval, out, diag, warn>>
    /\ UNCHANGED front

\* pop_scope called by the host between two runs: the exception, if any,
\* goes to the caller
HostPopScope ==
    /\ phase = "idle"
    /\ runs < MaxRuns
    /\ last.op # "pop_scope"
    /\ LET p == PopScope(scope_stack)
       IN /\ scope_stack' = p.stack
          /\ Did("pop_scope", p.sig)
    /\ UNCHANGED <<functions, control, vals, sig, retval, out, diag, warn,
                   phase, runs, program>>
    /\ UNCHANGED front

\* lines 599-612: an exception that reaches run_program is reported by the
\* except clause that catches it, and run_program returns; an exception no
\* clause catches leaves run_program
RunEnd ==
    /\ Running
    /\ control = <<>>
    /\ IF sig = "ok" \/ Caught(sig)
       THEN /\ diag' = IF sig # "ok" THEN Append(diag, Report(sig)) ELSE diag
            /\ sig' = "ok"
            /\ phase' = "idle"
       ELSE /\ phase' = "crashed"
            /\ UNCHANGED <<diag, sig>>
    /\ retval' = NoneV
    /\ vals' = <<>>
    /\ Did("RunEnd", sig)
    /\ UNCHANGED <<scope_stack, functions, control, out, warn, runs, program>>
    /\ UNCHANGED front

-----------------------------------------------------------------------------
(* Lexer.tokenize.  The source text is a sequence of characters; the rules *)
(* are those PLY builds from the class: a rule named t_X or t_INITIAL_X    *)
(* belongs to the INITIAL state, the function rules are tried in the order *)
(* of their definition and before the string rules.  The state             *)
(* 'interpolation' is exclusive: it has the rules t_interpolation_newline  *)
(* and t_interpolation_error only.                                         *)

\* the characters of the source texts: quote, dollar, braces, a letter, a
\* digit and a blank
CodeChars == {"\"", "$", "{", "}", "a", "1", " "}

Token(type, value) == [type |-> type, value |-> value]

\* Lexer.__init__ and the PLY lexer it creates
InitialLexer ==
    [pc |-> "idle", code |-> <<>>, lexpos |-> 1, state |-> "INITIAL",
     lexstatestack |-> <<>>, interpolation_stack |-> <<>>, bracket_count |-> 0,
     tok_list |-> <<>>, result |-> <<>>, errors |-> <<>>, exc |-> "", rule |-> "",
     entry |-> "", calls |-> 0]

\* the source texts handed to tokenize
RECURSIVE Texts(_, _)
Texts(chars, n) ==
    IF n = 0 THEN {<<>>}
    ELSE LET shorter == Texts(chars, n - 1)
         IN shorter \cup {Append(t, c) : t \in shorter, c \in chars}

Codes == Texts(CodeChars, MaxCode)

\* the module-level Lexer is idle: no call is in progress and the host may
\* make another one
LexerFree == lexer.pc = "idle" /\ lexer.calls < MaxCalls

\* what every call starts with, whatever it resets: the text, an empty token
\* list, and nothing printed or raised yet
LexerCall(lx, entry, code) ==
    [lx EXCEPT !.pc = "scanning", !.code = code, !.lexpos = 1, !.tok_list = <<>>,
               !.result = <<>>, !.errors = <<>>, !.exc = "", !.rule = entry,
               !.entry = entry, !.calls = @ + 1]

\* lines 346-353: tokenize resets its own state and restarts the PLY lexer
Tokenize ==
    /\ LexerFree
    /\ \E code \in Codes :
          lexer' = [LexerCall(lexer, "tokenize", code) EXCEPT
                      !.state = "INITIAL", !.interpolation_stack = <<>>,
                      !.bracket_count = 0]
    /\ UNCHANGED <<runtime, yacc>>

\* parse, parser.py lines 400-407 and 427: an empty text returns at once;
\* otherwise the position, the interpolation stack and the state are reset,
\* bracket_count is not, and parser.parse draws the tokens from the PLY lexer
ParseInput ==
    /\ LexerFree
    /\ \E code \in Codes \ {<<>>} :
          lexer' = [LexerCall(lexer, "parse", code) EXCEPT
                      !.state = "INITIAL", !.interpolation_stack = <<>>]
    /\ UNCHANGED <<runtime, yacc>>

\* ply_lexer.token() has input left and is in the INITIAL state
Scanning == lexer.pc = "scanning" /\ lexer.lexpos <= Len(lexer.code)

Cur == lexer.code[lexer.lexpos]

\* the character after the current one, "" at the end of the input
Peek == IF lexer.lexpos < Len(lexer.code) THEN lexer.code[lexer.lexpos + 1] ELSE ""

AtRule(chars) == Scanning /\ lexer.state = "INITIAL" /\ Cur \in chars

\* the longest run of characters of the set that starts at position i
RECURSIVE Run(_, _, _)
Run(code, i, set) ==
    IF i > Len(code) \/ code[i] \notin set THEN <<>>
    ELSE <<code[i]>> \o Run(code, i + 1, set)

\* int(t.value)
RECURSIVE IntOf(_)
IntOf(digits) ==
    IF digits = <<>> THEN 0
    ELSE 10 * IntOf(SubSeq(digits, 1, Len(digits) - 1))
         + (CHOOSE i \in 0..9 : Digit(i) = digits[Len(digits)])

\* a rule has matched text and returned a token
Emit(rule, type, value, length) ==
    [lexer EXCEPT !.tok_list = Append(@, Token(type, value)),
                  !.lexpos = @ + length, !.rule = rule]

\* an exception leaves the rule, token() and tokenize
Throw(lx, rule, exc) == [lx EXCEPT !.pc = "raised", !.exc = exc, !.rule = rule]

\* t_ignore = ' \t'
LexIgnore ==
    /\ AtRule({" "})
    /\ lexer' = [lexer EXCEPT !.lexpos = @ + 1, !.rule = "t_ignore"]
    /\ UNCHANGED <<runtime, yacc>>

\* t_INTEGER, lines 250-253 (no text of CodeChars matches t_FLOAT)
LexInteger ==
    /\ AtRule({"1"})
    /\ LET text == Run(lexer.code, lexer.lexpos, {"1"})
       IN lexer' = Emit("t_INTEGER", "INTEGER", IntOf(text), Len(text))
    /\ UNCHANGED <<runtime, yacc>>

\* t_ID, lines 255-258: no text over CodeChars is a keyword
LexId ==
    /\ AtRule({"a"})
    /\ LET text == Run(lexer.code, lexer.lexpos, {"a", "1"})
       IN lexer' = Emit("t_ID", "ID", text, Len(text))
    /\ UNCHANGED <<runtime, yacc>>

\* t_STRING_START, lines 261-265.  It is defined before t_STRING_LITERAL and
\* t_STRING_END, which belong to the same state and start with the same
\* character: every quote matches this rule
LexStringStart ==
    /\ AtRule({"\""})
    /\ lexer' = [Emit("t_STRING_START", "STRING_START", <<"\"">>, 1)
                    EXCEPT !.interpolation_stack = Append(@, 0)]
    /\ UNCHANGED <<runtime, yacc>>

\* t_error, lines 272-274: a dollar that starts no ${
LexError ==
    /\ AtRule({"$"})
    /\ Peek # "{"
    /\ lexer' = [lexer EXCEPT !.errors = Append(@, "Illegal character"),
                              !.lexpos = @ + 1, !.rule = "t_error"]
    /\ UNCHANGED <<runtime, yacc>>

\* PLY's push_state and pop_state on the stack of lexer states
PushState(lx, state) ==
    [lx EXCEPT !.lexstatestack = Append(@, lx.state), !.state = state]

\* the attribute the rule t_INTERPOL_START reads the PLY lexer from: the
\* class stores it as self.ply_lexer (line 209) and defines no self.lexer
HasLexerAttribute == FALSE

\* t_INTERPOL_START, lines 279-284: inside a string the count of the string
\* is incremented and self.lexer.push_state('interpolation') is called
LexInterpolStart ==
    /\ AtRule({"$"})
    /\ Peek = "{"
    /\ LET depth == Len(lexer.interpolation_stack)
           counted == [lexer EXCEPT !.interpolation_stack[depth] = @ + 1]
       IN lexer' =
            IF depth = 0
            THEN Emit("t_INTERPOL_START", "INTERPOL_START", <<"$", "{">>, 2)
            ELSE IF HasLexerAttribute
            THEN PushState([Emit("t_INTERPOL_START", "INTERPOL_START", <<"$", "{">>, 2)
                               EXCEPT !.interpolation_stack[depth] = @ + 1],
                           "interpolation")
            ELSE Throw(counted, "t_INTERPOL_START", "AttributeError")
    /\ UNCHANGED <<runtime, yacc>>

\* t_INITIAL_LBRACE, lines 311-315
LexLBrace ==
    /\ AtRule({"{"})
    /\ lexer' = [Emit("t_INITIAL_LBRACE", "LBRACE", <<"{">>, 1)
                    EXCEPT !.bracket_count =
                        IF lexer.interpolation_stack # <<>> THEN @ + 1 ELSE @]
    /\ UNCHANGED <<runtime, yacc>>

\* t_INITIAL_INTERPOL_END, lines 318-333; pop_state takes the state to
\* return to from lexstatestack and raises IndexError when it is empty
LexInterpolEnd ==
    /\ AtRule({"}"})
    /\ LET rule == "t_INITIAL_INTERPOL_END"
           counted == [lexer EXCEPT !.bracket_count = @ - 1]
           n == Len(lexer.lexstatestack)
       IN lexer' =
            IF lexer.interpolation_stack = <<>>
            THEN Emit(rule, "RBRACE", <<"}">>, 1)
            ELSE IF counted.bracket_count # 0
            THEN [Emit(rule, "RBRACE", <<"}">>, 1) EXCEPT !.bracket_count = @ - 1]
            ELSE IF n = 0
            THEN Throw(counted, rule, "IndexError")
            ELSE [Emit(rule, "INTERPOL_END", <<"}">>, 1)
                     EXCEPT !.bracket_count = @ - 1,
                            !.state = lexer.lexstatestack[n],
                            !.lexstatestack = SubSeq(@, 1, n - 1)]
    /\ UNCHANGED <<runtime, yacc>>

\* lines 354-361: token() returns None at the end of the input; the check for
\* an unterminated string, and the token list is returned
TokenizeReturn ==
    /\ lexer.pc = "scanning"
    /\ lexer.entry = "tokenize"
    /\ lexer.lexpos > Len(lexer.code)
    /\ lexer' = [lexer EXCEPT
                    !.pc = "returned",
                    !.result = lexer.tok_list,
                    !.errors = IF lexer.state = "interpolation"
                               THEN Append(@, "Unterminated string literal") ELSE @,
                    !.rule = "return"]
    /\ UNCHANGED <<runtime, yacc>>

\* parser.parse has drawn the last token: token() returns None
ParseInputEnd ==
    /\ lexer.pc = "scanning"
    /\ lexer.entry = "parse"
    /\ lexer.lexpos > Len(lexer.code)
    /\ lexer' = [lexer EXCEPT !.pc = "returned", !.result = lexer.tok_list,
                              !.rule = "return"]
    /\ UNCHANGED <<runtime, yacc>>

\* The call is over: its token list and its exception are the caller's, and
\* the Lexer keeps what its attributes and the PLY lexer hold.
LexerLeave ==
    /\ lexer.pc \in {"returned", "raised"}
    /\ lexer' = [lexer EXCEPT !.pc = "idle", !.code = <<>>, !.lexpos = 1,
                              !.tok_list = <<>>, !.result = <<>>, !.errors = <<>>,
                              !.exc = "", !.rule = "", !.entry = ""]
    /\ UNCHANGED <<runtime, yacc>>

LexNext ==
    \/ Tokenize
    \/ ParseInput
    \/ LexIgnore
    \/ LexInteger
    \/ LexId
    \/ LexStringStart
    \/ LexError
    \/ LexInterpolStart
    \/ LexLBrace
    \/ LexInterpolEnd
    \/ TokenizeReturn
    \/ ParseInputEnd
    \/ LexerLeave

-----------------------------------------------------------------------------
(* The parser: parse and Interpreter.interpret_string                      *)

\* The token stream handed to parser.parse, for the statements
\*   statement : show_stmt | expression_stmt
\*   show_stmt : SHOW expression        expression_stmt : expression
\*   expression : literal               literal : INTEGER
\* and a token, RPAREN, that no statement can start with or continue with.
YaccTokens == {"show", "1", "2", ")"}

\* the token the lexer makes of a lexeme: t_ID for the keyword, t_INTEGER
\* with the integer value, and the string rule t_RPAREN
TokenOf(lexeme) ==
    CASE lexeme = "show" -> Token("SHOW", "show")
      [] lexeme = "1" -> Token("INTEGER", 1)
      [] lexeme = "2" -> Token("INTEGER", 2)
      [] lexeme = ")" -> Token("RPAREN", ")")

TokenStreams == Texts(YaccTokens, MaxTokens)

\* p_program
ProgramAst(stmts) == [node |-> "program", stmts |-> stmts]

\* an entry of the parser's symbol stack: a grammar symbol and its value
YaccSymbol(type, value) == [type |-> type, value |-> value]

InitialParser ==
    [pc |-> "idle", input |-> <<>>, pos |-> 1, symstack |-> <<>>,
     errorcount |-> 0, errors |-> <<>>, result |-> NoneAst, ast |-> <<>>]

\* the lookahead token type; the end of the input is the token $end
Lookahead ==
    IF yacc.pos <= Len(yacc.input) THEN yacc.input[yacc.pos].type ELSE "$end"

\* the symbol on top of the stack ("$end" at the bottom)
TopSymbol ==
    IF yacc.symstack = <<>> THEN "$end" ELSE Top(yacc.symstack).type

\* the statements reduced so far
Reduced ==
    IF yacc.symstack # <<>> /\ yacc.symstack[1].type = "statements"
    THEN yacc.symstack[1].value ELSE <<>>

\* the tokens for which the parse table has an action, by the top of the stack
HasAction ==
    CASE TopSymbol \in {"$end", "statements"} ->
            Lookahead \in {"SHOW", "INTEGER", "$end"}
      [] TopSymbol = "SHOW" -> Lookahead = "INTEGER"
      [] TopSymbol = "expression" -> Lookahead \in {"SHOW", "INTEGER", "$end"}

\* parse: the lexer is reset and parser.parse starts on the token stream
Parse(lexemes) ==
    /\ yacc.pc = "idle"
    /\ lexemes # <<>>
    /\ yacc' = [InitialParser EXCEPT
                  !.pc = "parsing",
                  !.input = [i \in 1..Len(lexemes) |-> TokenOf(lexemes[i])]]
    /\ UNCHANGED <<runtime, lexer>>

\* a shift; every shift lowers the error count.  An INTEGER is reduced to
\* literal and to expression (p_expression_terminals) without a lookahead.
YaccShift ==
    /\ yacc.pc = "parsing"
    /\ HasAction
    /\ \/ Lookahead = "SHOW" /\ TopSymbol \in {"$end", "statements"}
       \/ Lookahead = "INTEGER" /\ TopSymbol # "expression"
    /\ LET tok == yacc.input[yacc.pos]
           sym == IF tok.type = "INTEGER"
                  THEN YaccSymbol("expression", <<N(tok.value)>>)
                  ELSE YaccSymbol("SHOW", <<>>)
       IN yacc' = [yacc EXCEPT
                     !.symstack = Append(@, sym),
                     !.pos = @ + 1,
                     !.errorcount = IF @ > 0 THEN @ - 1 ELSE 0]
    /\ UNCHANGED <<runtime, lexer>>

\* p_show_stmt or p_expression_stmt, p_statement, then p_statements_single or
\* p_statements_list
YaccReduce ==
    /\ yacc.pc = "parsing"
    /\ HasAction
    /\ TopSymbol = "expression"
    /\ LET n == Len(yacc.symstack)
           e == yacc.symstack[n].value[1]
           isShow == n > 1 /\ yacc.symstack[n - 1].type = "SHOW"
           stmt == IF isShow THEN ShowE(e) ELSE ExpressionStmt(e)
       IN yacc' = [yacc EXCEPT
                     !.symstack =
                         <<YaccSymbol("statements", Append(Reduced, stmt))>>]
    /\ UNCHANGED <<runtime, lexer>>

\* p_statements_empty if nothing was reduced, p_program, and the return of
\* parser.parse
YaccAccept ==
    /\ yacc.pc = "parsing"
    /\ TopSymbol \in {"$end", "statements"}
    /\ Lookahead = "$end"
    /\ yacc' = [yacc EXCEPT !.pc = "returned", !.result = ProgramAst(Reduced)]
    /\ UNCHANGED <<runtime, lexer>>

\* p_error only prints
p_error(y, type) == [y EXCEPT !.errors = Append(@, type)]

\* A token without an action.  p_error is called unless the parser is still
\* recovering from an earlier error; it neither raises nor stops the parser,
\* so the parser goes on: with nothing on the stack the token is dropped, at
\* the end of the input the parse gives up and returns None, and otherwise
\* the token is set aside for the symbol error.
YaccError ==
    /\ yacc.pc = "parsing"
    /\ ~HasAction
    /\ LET reported == IF yacc.errorcount = 0 THEN p_error(yacc, Lookahead)
                       ELSE yacc
           y == [reported EXCEPT !.errorcount = 3]
       IN yacc' = IF yacc.symstack = <<>> /\ Lookahead # "$end"
                  THEN [y EXCEPT !.pos = @ + 1]
                  ELSE IF Lookahead = "$end"
                  THEN [y EXCEPT !.pc = "returned", !.result = NoneAst]
                  ELSE [y EXCEPT !.pc = "error"]
    /\ UNCHANGED <<runtime, lexer>>

\* The grammar has no rule with the symbol error, so no state has an action
\* for it: the stack is popped entry by entry, and when it is empty the token
\* set aside is dropped and the parse starts again with the next token.
YaccUnwind ==
    /\ yacc.pc = "error"
    /\ yacc' = IF yacc.symstack = <<>>
               THEN [yacc EXCEPT !.pc = "parsing", !.pos = @ + 1,
                                 !.errorcount = 3]
               ELSE [yacc EXCEPT !.symstack = Pop(@), !.errorcount = 3]
    /\ UNCHANGED <<runtime, lexer>>

\* interpret_string: "if ast:" hands any AST to run_program; a program
\* node is a non-empty tuple, so only None fails
InterpretString ==
    /\ yacc.pc = "returned"
    /\ yacc' = IF yacc.result # NoneAst
               THEN [yacc EXCEPT !.pc = "ran", !.ast = <<yacc.result>>]
               ELSE [yacc EXCEPT !.pc = "failed"]
    /\ UNCHANGED <<runtime, lexer>>

ParseNext ==
    \/ \E lexemes \in TokenStreams : Parse(lexemes)
    \/ YaccShift
    \/ YaccReduce
    \/ YaccAccept
    \/ YaccError
    \/ YaccUnwind
    \/ InterpretString

-----------------------------------------------------------------------------
(* The machine                                                             *)

\* Runtime.__init__
Init ==
    /\ scope_stack = <<InitialGlobalScope>>
    /\ functions = [m \in {} |-> NoneV]
    /\ control = <<>>
    /\ vals = <<>>
    /\ sig = "ok"
    /\ retval = NoneV
    /\ out = <<>>
    /\ diag = <<>>
    /\ warn = <<>>
    /\ phase = "idle"
    /\ runs = 0
    /\ program = <<>>
    /\ last = [op |-> "Init", name |-> ""]
    /\ lexer = InitialLexer
    /\ yacc = InitialParser

Next ==
    \/ \E p \in Programs \cup RerunPrograms : RunProgram(p)
    \/ RunEnd
    \/ HostPopScope
    \/ StmtVarDecl
    \/ DoVarDecl
    \/ StmtAssign
    \/ DoAssignStmt
    \/ StmtFunDecl
    \/ StmtShow
    \/ DoShow
    \/ DoDiscard
    \/ StmtIf
    \/ DoIf
    \/ StmtWhile
    \/ DoWhileTest
    \/ DoWhileBody
    \/ StmtBlock
    \/ StmtReturn
    \/ DoReturn
    \/ StmtExpression
    \/ StmtOther
    \/ BlockEnter
    \/ BlockExit
    \/ EvalLiteral
    \/ EvalIdentifier
    \/ EvalAssign
    \/ DoAssignExpr
    \/ EvalBinop
    \/ DoBinopRight
    \/ DoBinopApply
    \/ EvalUnary
    \/ DoUnary
    \/ EvalCall
    \/ EvalInterp
    \/ DoInterpStr
    \/ DoInterpJoin
    \/ EvalOther
    \/ DoCall
    \/ CallExit
    \/ Unwind

Spec == Init /\ [][Next]_vars

\* tokenize on its own
LexSpec == Init /\ [][LexNext]_vars

\* interpret_string on its own
ParseSpec == Init /\ [][ParseNext]_vars

-----------------------------------------------------------------------------
(* Vocabulary of the properties                                            *)

\* the names some frame of the stack binds
BoundNames(stack) == UNION {DOMAIN stack[i] : i \in 1..Len(stack)}

\* the first run_program on the Runtime has returned
FirstRunDone == phase = "idle" /\ runs = 1

\* the lines written to stdout
Shown == {out[i] : i \in 1..Len(out)}

\* _call_function is about to run for a user-defined function
AtUserCall ==
    /\ At("call")
    /\ Head(control).name \notin Builtins
    /\ Head(control).name \in DOMAIN functions

CallParams == functions[Head(control).name].params

CallArgs == SubSeq(vals, Len(vals) - Head(control).nargs + 1, Len(vals))

-----------------------------------------------------------------------------
(* C1 *)

\* C1: block scoping.  When a block exits, every name bound in some frame of
\* the scope stack afterwards was bound in a frame enclosing the block; a
\* name declared only inside the block is unbound again, so looking it up
\* raises NameError.
C1_BlockScoping ==
    [][last'.op = "BlockExit" =>
        \A n \in BoundNames(scope_stack) \cup BoundNames(scope_stack') :
            n \notin BoundNames(Pop(scope_stack)) =>
                /\ n \notin BoundNames(scope_stack')
                /\ n \notin Builtins => GetVariable(scope_stack', n).sig = "NameError"]_vars

\* a block has exited in whose frame a name was declared that no enclosing
\* frame bound
C1_Witness ==
    /\ last.op = "BlockExit"
    /\ program \in ScopePrograms
    /\ Len(scope_stack) = 1
    /\ "x" \notin BoundNames(scope_stack)
    /\ program[1].node = "block"
    /\ program[1].stmts = <<Let("x", N(1))>>

-----------------------------------------------------------------------------
(* C2 *)

\* C2: a call of a user-defined function with as many arguments as
\* parameters pushes one fresh frame that binds the i-th parameter to the
\* i-th argument, so a lookup of a parameter yields its argument.
C2_CallBindsParameters ==
    [][(AtUserCall /\ Len(CallArgs) = Len(CallParams)) =>
        /\ Len(scope_stack') = Len(scope_stack) + 1
        /\ \A i \in 1..Len(CallParams) :
              /\ CallParams[i] \in DOMAIN Top(scope_stack')
              /\ GetVariable(scope_stack', CallParams[i]) = Ok(CallArgs[i])]_vars

-----------------------------------------------------------------------------
(* C3 *)

\* C3: && and || short-circuit.  With the left operand of && falsy, or the
\* left operand of || truthy, the right operand is not evaluated: the binop
\* is finished with no evaluation scheduled and no effect.
C3_ShortCircuit ==
    [][(/\ At("binop_right")
        /\ \/ Head(control).op = "&&" /\ ~Truthy(Top(vals))
           \/ Head(control).op = "||" /\ Truthy(Top(vals))) =>
        /\ control' = Tail(control)
        /\ scope_stack' = scope_stack
        /\ sig' = "ok"]_vars

-----------------------------------------------------------------------------
(* C4 *)

\* C4: a declaration  K name = expr  binds name in the innermost frame to
\* the value of expr and a lookup right after it yields that value, whatever
\* the keyword K: the program  K name = v ; show name  shows v for every K.
C4_DeclBinds ==
    /\ [][At("var_decl") =>
            LET name == Head(control).name
            IN /\ sig' = "ok"
               /\ Len(scope_stack') = Len(scope_stack)
               /\ name \in DOMAIN Top(scope_stack')
               /\ Top(scope_stack')[name] = Top(vals)
               /\ GetVariable(scope_stack', name) = Ok(Top(vals))]_vars
    /\ [](\A kw \in DeclKeywords, n \in VarNames, v \in IntLits :
            (FirstRunDone /\ program = <<VarDecl(kw, n, Lit(v)), ShowE(Id(n))>>)
                => out = <<<<v>>>>)

\* a declaration with a keyword other than let has shadowed, inside a block,
\* a name the global frame binds
C4_Witness ==
    /\ last = [op |-> "DoVarDecl", name |-> "new_money"]
    /\ program = <<Let("new_money", N(0)),
                   Block(<<VarDecl("box", "new_money", N(1)), ShowE(Id("new_money"))>>),
                   ShowE(Id("new_money"))>>
    /\ Len(scope_stack) = 2
    /\ scope_stack[1]["new_money"] = IntV(0)
    /\ scope_stack[2]["new_money"] = IntV(1)

-----------------------------------------------------------------------------
(* C5 *)

\* C5: a call of a user-defined function with a number of arguments other
\* than its number of parameters raises TypeError, pushes no frame and runs
\* no statement of the body.
C5_ArityMismatch ==
    /\ [][(AtUserCall /\ Len(CallArgs) # Len(CallParams)) =>
            /\ sig' = "TypeError"
            /\ scope_stack' = scope_stack
            /\ control' = Tail(control)
            /\ out' = out]_vars
    /\ [](\A ps \in {<<>>, <<"a">>, <<"a", "b">>}, args \in {<<>>, <<N(1)>>, <<N(1), N(2)>>} :
            (/\ FirstRunDone
             /\ Len(ps) # Len(args)
             /\ program = <<FunDecl("f", ps, Block(<<ShowE(N(2))>>)), ShowE(N(1)),
                            Block(<<ShowE(Call("f", args)), ShowE(N(0))>>), ShowE(N(0))>>)
                => out = <<<<IntV(1)>>>> /\ diag = <<"TypeError">>)

\* a call with too few arguments, made inside a block, has raised TypeError
C5_Witness ==
    /\ last = [op |-> "DoCall", name |-> "f"]
    /\ sig = "TypeError"
    /\ Len(scope_stack) = 2
    /\ Len(functions["f"].params) = 2
    /\ program \in ArityPrograms

-----------------------------------------------------------------------------
(* C6 *)

\* some user-function call is active
InCall == \E i \in 1..Len(control) : control[i].c = "call_exit"

\* C6: a return inside any depth of blocks and loops of a function body
\* unwinds to the nearest enclosing call: while the ReturnSignal is in
\* flight every pending piece of work of that call is dropped, one by one,
\* with no output; the first call boundary it meets catches it, yields its
\* value and hands control to the caller.  A body that ends without return
\* yields null.
C6_ReturnUnwinds ==
    /\ [][(Running /\ sig = "return" /\ InCall) =>
            /\ out' = out
            /\ diag' = diag
            /\ functions' = functions
            /\ control' = Tail(control)
            /\ IF Head(control).c = "call_exit"
               THEN /\ sig' = "ok"
                    /\ vals' = Append(SubSeq(vals, 1, Head(control).base), retval)
                    /\ Len(scope_stack') = Len(scope_stack) - 1
               ELSE /\ sig' = "return"
                    /\ retval' = retval]_vars
    /\ [][(Running /\ sig = "ok" /\ control # <<>> /\ Head(control).c = "call_exit") =>
            /\ vals' = Append(vals, NoneV)
            /\ control' = Tail(control)]_vars
    /\ [](\A v \in Lits :
            (/\ FirstRunDone
             /\ program = <<FunDecl("f", <<>>,
                              Block(<<While(N(1), Block(<<Block(<<Return(Lit(v)), Dead>>),
                                                          Dead>>)),
                                      Dead>>)),
                            ShowE(Call("f", <<>>)), ShowE(N(1))>>)
                => out = <<<<v>>, <<IntV(1)>>>> /\ diag = <<>>)

\* a return raised two blocks deep inside a while loop has been caught at
\* the call boundary
C6_Witness ==
    /\ last = [op |-> "CallExit", name |-> "return"]
    /\ sig = "ok"
    /\ Top(vals) = BoolV(TRUE)
    /\ program[1].node = "fun_decl"
    /\ program[1].body.stmts[1].node = "while"

-----------------------------------------------------------------------------
(* C7 *)

\* C7:  a / b  and  a % b  with b evaluating to zero raise the
\* division-by-zero error and yield no value; the error then stays in flight,
\* with no output, until run_program reports it and the run is over.
C7_DivisionByZero ==
    /\ [][(/\ At("binop_apply")
           /\ Head(control).op \in {"/", "%"}
           /\ Top(vals).k \in {"int", "float"}
           /\ Top(vals).n = 0) =>
            /\ sig' = "ZeroDivisionError"
            /\ vals' = Pop(Pop(vals))]_vars
    /\ [][(Running /\ sig = "ZeroDivisionError") =>
            /\ out' = out
            /\ IF control = <<>>
               THEN /\ phase' = "idle"
                    /\ diag' = Append(diag, "ZeroDivisionError")
               ELSE /\ sig' = "ZeroDivisionError"
                    /\ control' = Tail(control)
                    /\ diag' = diag]_vars

\* a modulo by a float zero has raised
C7_Witness ==
    /\ last = [op |-> "DoBinopApply", name |-> "%"]
    /\ sig = "ZeroDivisionError"
    /\ program = <<Let("z", Binop("%", N(2), Binop("/", N(0), N(2)))), Dead>>

-----------------------------------------------------------------------------
(* C8 *)

\* C8: a runtime error raised by a statement is reported once, by
\* run_program; from the raise on nothing runs but the clean-up of the
\* pending blocks and calls, no later statement executes, and run_program
\* returns normally.
C8_ErrorHaltsRun ==
    /\ [][(Running /\ sig = "ok" /\ sig' \in Errors) => diag' = diag]_vars
    /\ [][(Running /\ sig \in Errors) =>
            /\ out' = out
            /\ functions' = functions
            /\ last'.op \in {"Unwind", "BlockExit", "CallExit", "RunEnd"}
            /\ IF control = <<>>
               THEN /\ phase' = "idle"
                    /\ sig' = "ok"
                    /\ diag' = Append(diag, sig)
               ELSE /\ sig' = sig
                    /\ diag' = diag
                    /\ control' = Tail(control)]_vars
    /\ []((FirstRunDone /\ program \in ErrorPrograms) =>
            Len(diag) = 1 /\ <<IntV(-1)>> \notin Shown)
    /\ [](phase # "crashed")

\* run_program has returned after a NameError raised two blocks deep, with
\* only the output written before the error
C8_Witness ==
    /\ last = [op |-> "RunEnd", name |-> "NameError"]
    /\ phase = "idle"
    /\ runs = 1
    /\ diag = <<"NameError">>
    /\ out = <<<<IntV(1)>>>>
    /\ program \in ErrorPrograms

-----------------------------------------------------------------------------
(* C9 *)

\* C9:  when X is Y { A } else { B }  runs A exactly when X equals Y by
\* value and otherwise B, if present: with A = show 1 and B = show 2,
\* followed by show 0, the output is 1 0 when X equals Y, 2 0 when it does
\* not and B is present, and 0 alone when it does not and B is absent.
C9_WhenBranches ==
    (/\ FirstRunDone
     /\ Len(program) = 2
     /\ program[1].node = "when"
     /\ program[2] = ShowE(N(0))) =>
        LET w == program[1]
            branch == IF PyEq(w.x.value, w.y.value) THEN <<<<IntV(1)>>>>
                      ELSE IF w.else = NoneAst THEN <<>>
                      ELSE <<<<IntV(2)>>>>
        IN out = branch \o <<<<IntV(0)>>>>

\* the run of  when 1 is 1 { show 1 } else { show 2 } ; show 0  is over: the
\* statement was skipped with a warning and neither branch has run
C9_Witness ==
    /\ FirstRunDone
    /\ program = <<When(N(1), N(1), Block(<<ShowE(N(1))>>), Block(<<ShowE(N(2))>>)),
                   ShowE(N(0))>>
    /\ Len(warn) = 1
    /\ out = <<<<IntV(0)>>>>

-----------------------------------------------------------------------------
(* C10 *)

\* C10: an assignment  name = expr, as a statement or inside an expression,
\* updates the innermost frame that binds name when there is one and
\* otherwise binds name in the current frame; it raises no error, and inside
\* an expression its value is the assigned value.
C10_AssignUpdatesOrCreates ==
    [][(At("assign_stmt") \/ At("assign_expr")) =>
        LET name == Head(control).name
            value == Top(vals)
            i == FindScope(scope_stack, name)
            target == IF i = 0 THEN Len(scope_stack) ELSE i
        IN /\ sig' = "ok"
           /\ scope_stack' = [scope_stack EXCEPT ![target] = Bind(@, name, value)]
           /\ At("assign_expr") => vals' = vals]_vars

\* the statement  x = 1  has raised NameError at top level, x being unbound
C10_Witness ==
    /\ last = [op |-> "DoAssignStmt", name |-> "x"]
    /\ sig = "NameError"
    /\ Len(scope_stack) = 1
    /\ "x" \notin DOMAIN scope_stack[1]
    /\ program = <<AssignAst("x", N(1)), ShowE(Id("x"))>>

-----------------------------------------------------------------------------
(* C11 *)

\* C11: the lookup of a name yields the value bound in the innermost frame
\* that binds it, the built-in of that name when no frame binds it, and
\* NameError when there is no such built-in either; it adds and changes no
\* binding in any frame.
C11_LookupNearest ==
    [][AtEval("identifier") =>
        LET name == Head(control).ast.name
            holders == {i \in 1..Len(scope_stack) : name \in DOMAIN scope_stack[i]}
        IN /\ scope_stack' = scope_stack
           /\ IF holders # {}
              THEN /\ sig' = "ok"
                   /\ \E i \in holders :
                        /\ \A j \in holders : j <= i
                        /\ vals' = Append(vals, scope_stack[i][name])
              ELSE IF name \in Builtins
              THEN /\ sig' = "ok"
                   /\ vals' = Append(vals, BuiltinValue(name))
              ELSE /\ sig' = "NameError"
                   /\ vals' = vals]_vars

\* a name bound to 0 in the global frame and to 1 in a block's frame has
\* been looked up inside the block, and the lookup has yielded 1
C11_Witness ==
    /\ last = [op |-> "EvalIdentifier", name |-> "x"]
    /\ Len(scope_stack) = 2
    /\ "x" \in DOMAIN scope_stack[1]
    /\ "x" \in DOMAIN scope_stack[2]
    /\ scope_stack[1]["x"] = IntV(0)
    /\ scope_stack[2]["x"] = IntV(1)
    /\ vals # <<>>
    /\ Top(vals) = IntV(1)

-----------------------------------------------------------------------------
(* C12 *)

\* the text Python gives the value of each part of InterpParts
TextOf(part) ==
    CASE part = S(<<"a">>) -> <<"a">>
      [] part = N(1) -> <<"1">>
      [] part = Lit(IntV(12)) -> <<"1", "2">>
      [] part = UnaryMinus(N(2)) -> <<"-", "2">>
      [] part = Binop("/", N(1), N(2)) -> <<"0", ".", "5">>
      [] part = Binop("/", N(2), N(1)) -> <<"2", ".", "0">>
      [] part = Lit(BoolV(TRUE)) -> <<"T", "r", "u", "e">>
      [] part = Lit(NoneV) -> <<"N", "o", "n", "e">>
      [] part = Interp(<<N(0), S(<<"b">>)>>) -> <<"0", "b">>

\* C12: an interpolated string evaluates to the concatenation, in fragment
\* order, of its literal fragments and the text of the value of each embedded
\* expression; each part is evaluated once, left to right:
\* "${x = x + 1}a${x = x + 1}${x}" with x = 0 is "1a22" and leaves x = 2.
C12_Interpolation ==
    /\ \A p1, p2 \in InterpParts :
        (FirstRunDone /\ program = <<ShowE(Interp(<<p1, p2>>)), ShowE(N(0))>>) =>
            out = <<<<StrV(TextOf(p1) \o TextOf(p2))>>, <<IntV(0)>>>>
    /\ (/\ FirstRunDone
        /\ program = <<Let("x", N(0)),
                       ShowE(Interp(<<Incr, S(<<"a">>), Incr, Id("x")>>)),
                       ShowE(Id("x"))>>) =>
            out = <<<<StrV(<<"1", "a", "2", "2">>)>>, <<IntV(2)>>>>

\* the string "${x = x + 1}a${x = x + 1}${x}" has been joined from its four
\* parts
C12_Witness ==
    /\ last.op = "DoInterpJoin"
    /\ program = <<Let("x", N(0)),
                   ShowE(Interp(<<Incr, S(<<"a">>), Incr, Id("x")>>)),
                   ShowE(Id("x"))>>
    /\ Top(vals) = StrV(<<"1", "a", "2", "2">>)
    /\ scope_stack[1]["x"] = IntV(2)

-----------------------------------------------------------------------------
(* C13 *)

\* C13: a return executed outside every function call (among the top-level
\* statements or inside top-level blocks and loops) halts the program and is
\* reported as an error by run_program: while the signal is in flight only
\* pending work is dropped, nothing is shown, no later statement runs, and
\* when run_program returns the scope stack holds the global frame alone.
C13_TopLevelReturn ==
    /\ [][(Running /\ sig = "return" /\ ~InCall) =>
            /\ out' = out
            /\ functions' = functions
            /\ IF control = <<>>
               THEN /\ phase' = "idle"
                    /\ diag' = Append(diag, "return outside function")
                    /\ Len(scope_stack') = 1
               ELSE /\ sig' = "return"
                    /\ control' = Tail(control)
                    /\ diag' = diag]_vars
    /\ []((FirstRunDone /\ program \in TopLevelReturnPrograms) =>
            /\ diag = <<"return outside function">>
            /\ <<IntV(-1)>> \notin Shown
            /\ Len(scope_stack) = 1)

\* run_program has reported a return raised inside an if, inside a loop,
\* inside a block at top level
C13_Witness ==
    /\ last = [op |-> "RunEnd", name |-> "return"]
    /\ phase = "idle"
    /\ runs = 1
    /\ Len(program) = 3
    /\ program[2].node = "block"
    /\ program[2].stmts[1].node = "while"
    /\ out = <<<<IntV(1)>>>>
    /\ diag = <<"return outside function">>
    /\ Len(scope_stack) = 1

-----------------------------------------------------------------------------
(* C14 *)

\* C14: defining a function under the name of a built-in (print, show,
\* input) raises NameError and leaves the function table as it was; defining
\* a function under a name the table already holds replaces the entry, and a
\* later call runs the body defined last.
C14_DefineFunction ==
    /\ [][AtStmt("fun_decl") =>
            LET s == Head(control).ast
            IN IF s.name \in Builtins
               THEN /\ sig' = "NameError"
                    /\ functions' = functions
               ELSE /\ sig' = "ok"
                    /\ DOMAIN functions' = DOMAIN functions \cup {s.name}
                    /\ functions'[s.name] = [params |-> s.params, body |-> s.body]
                    /\ \A f \in DOMAIN functions \ {s.name} :
                            functions'[f] = functions[f]]_vars
    /\ [](\A ps \in {<<>>, <<"a">>} :
            (/\ FirstRunDone
             /\ program = <<FunDecl("f", ps, Block(<<Return(N(1))>>)),
                            FunDecl("f", <<>>, Block(<<Return(N(2))>>)),
                            ShowE(Call("f", <<>>))>>)
                => out = <<<<IntV(2)>>>> /\ diag = <<>>)
    /\ [](\A b \in Builtins :
            (/\ FirstRunDone
             /\ program = <<FunDecl("f", <<>>, Block(<<Return(N(1))>>)),
                            Block(<<FunDecl(b, <<>>, Block(<<Return(N(2))>>)), Dead>>),
                            Dead>>)
                => /\ out = <<>>
                   /\ diag = <<"NameError">>
                   /\ DOMAIN functions = {"f"})

\* f, defined with one parameter, has been defined again with none
C14_Witness ==
    /\ last = [op |-> "StmtFunDecl", name |-> "f"]
    /\ runs = 1
    /\ warn = <<"redefined">>
    /\ "f" \in DOMAIN functions
    /\ functions["f"] = [params |-> <<>>, body |-> Block(<<Return(N(2))>>)]
    /\ program[1] = FunDecl("f", <<"a">>, Block(<<Return(N(1))>>))

-----------------------------------------------------------------------------
(* C16 *)

\* C15: when the token sequence contains a syntax error, parse reports it at
\* the first mismatching token, stops without resynchronising on later
\* tokens, and returns no AST (None), so that the evaluator is never run on a
\* partial program: once an error is reported nothing more is shifted, it is
\* the only report, parse returns None and run_program is not called.
C15_SyntaxErrorStops ==
    yacc.errors # <<>> =>
        /\ Len(yacc.errors) = 1
        /\ yacc.pc # "ran"
        /\ yacc.pc \in {"returned", "failed"} => yacc.result = NoneAst

\* "show 1 ) 2": the error at ")" is reported, "show 1" is thrown away with
\* the stack, and the program made of the statement "2" is run
C15_Witness ==
    /\ yacc.pc = "ran"
    /\ [i \in 1..Len(yacc.input) |-> yacc.input[i].type] =
           <<"SHOW", "INTEGER", "RPAREN", "INTEGER">>
    /\ yacc.errors = <<"RPAREN">>
    /\ yacc.ast = <<ProgramAst(<<ExpressionStmt(N(2))>>)>>

\* the source text opens a string literal and never closes it
UnterminatedString(code) ==
    Cardinality({i \in 1..Len(code) : code[i] = "\""}) = 1

\* C16: when the input ends inside a string literal that was never closed,
\* tokenize does not raise, reports the unterminated string, and returns the
\* tokens produced up to the end of the input.
C16_UnterminatedStringReported ==
    (/\ lexer.pc \in {"returned", "raised"}
     /\ lexer.entry = "tokenize"
     /\ UnterminatedString(lexer.code)) =>
        /\ lexer.pc = "returned"
        /\ lexer.errors # <<>>
        /\ lexer.errors[Len(lexer.errors)] = "Unterminated string literal"
        /\ lexer.result = lexer.tok_list

\* tokenize has returned the tokens of  "a  without any diagnostic, in the
\* INITIAL state
C16_Witness ==
    /\ lexer.pc = "returned"
    /\ lexer.entry = "tokenize"
    /\ lexer.code = <<"\"", "a">>
    /\ lexer.state = "INITIAL"
    /\ lexer.errors = <<>>
    /\ lexer.result = <<Token("STRING_START", <<"\"">>), Token("ID", <<"a">>)>>

\* the finally clause of execute_block or of _call_function is about to run
AtExit ==
    /\ Running
    /\ control # <<>>
    /\ Head(control).c \in {"block_exit", "call_exit"}

\* C17: every block execution and every user-function call restores the
\* scope stack on every exit path, normal completion, runtime error or return
\* signal alike: the exit removes the frame that the entry pushed and leaves
\* the stack with the depth and the frames that were under that frame.
C17_ExitRestoresStack ==
    [][(AtExit /\ control' = Tail(control)) =>
          /\ scope_stack' = Pop(scope_stack)
          /\ Head(control).c = "block_exit" =>
                Len(scope_stack') = Head(control).orig]_vars

\* the depth alone: the exit leaves one frame less, on every exit path
ExitRestoresDepth ==
    [][(AtExit /\ control' = Tail(control)) =>
          /\ Len(scope_stack') = Len(scope_stack) - 1
          /\ Head(control).c = "block_exit" =>
                Len(scope_stack') = Head(control).orig]_vars

\* the pending finally clauses of the given kind: one per execution of
\* execute_block ("block_exit") or of _call_function ("call_exit") that has
\* pushed its frame and has not left yet
Active(c) == Cardinality({i \in 1..Len(control) : control[i].c = c})

\* C18: at every point during evaluation the scope stack is the global frame
\* plus exactly one frame per active block execution and exactly one frame
\* per active user-function call.
C18_DepthIsNesting ==
    Len(scope_stack) - 1 = Active("block_exit") + Active("call_exit")

\* inside a block of the body of a called function, itself called in a block
C18_Witness ==
    /\ Active("call_exit") >= 1
    /\ Active("block_exit") >= 3
    /\ Len(scope_stack) >= 5

\* C19: for every variable name, an assignment executed inside a block to a
\* name that is bound in an enclosing frame (and not in the block's own
\* frame) mutates that enclosing binding, and after the block exits a lookup
\* of the name in the enclosing scope returns the value assigned inside the
\* block: the exit of the block changes no enclosing binding.
C19_BlockAssignPersists ==
    [][/\ (/\ At("assign_stmt") \/ At("assign_expr")
           /\ Len(scope_stack) > 1
           /\ Head(control).name \notin DOMAIN Top(scope_stack)
           /\ FindScope(scope_stack, Head(control).name) > 0) =>
             LET name == Head(control).name
                 i == FindScope(scope_stack, name)
             IN /\ scope_stack'[i][name] = Top(vals)
                /\ GetVariable(scope_stack', name) = Ok(Top(vals))
       /\ (AtExit /\ Head(control).c = "block_exit" /\ control' = Tail(control)) =>
             \A n \in BoundNames(Pop(scope_stack)) \ DOMAIN Top(scope_stack) :
                 GetVariable(scope_stack', n) = GetVariable(scope_stack, n)]_vars

\* let new_money = 0 { new_money = 1; show new_money } show new_money  has
\* shown 1 inside the block and 0 after it
C19_Witness ==
    /\ FirstRunDone
    /\ program = <<Let("new_money", N(0)),
                   Block(<<AssignAst("new_money", N(1)), ShowE(Id("new_money"))>>),
                   ShowE(Id("new_money"))>>
    /\ out = <<<<IntV(1)>>, <<IntV(0)>>>>

\* C20: shadowing leaves outer bindings untouched.  For every variable name,
\* a declaration inside a block of a name that is also bound in an enclosing
\* frame writes only the block's own frame, and after the block exits the
\* enclosing binding still holds its value: the exit of the block changes no
\* enclosing binding of a name that the block's frame binds as well.
C20_ShadowingLeavesOuter ==
    [][/\ (/\ At("var_decl")
           /\ Len(scope_stack) > 1
           /\ FindScope(Pop(scope_stack), Head(control).name) > 0) =>
             /\ Pop(scope_stack') = Pop(scope_stack)
             /\ Top(scope_stack')[Head(control).name] = Top(vals)
       /\ (AtExit /\ Head(control).c = "block_exit" /\ control' = Tail(control)) =>
             \A n \in BoundNames(Pop(scope_stack)) \cap DOMAIN Top(scope_stack) :
                 GetVariable(scope_stack', n) = GetVariable(Pop(scope_stack), n)]_vars

\* let new_money = 0 { let new_money = 1; show new_money } show new_money  has
\* shown 1 inside the block and 1 after it
C20_Witness ==
    /\ FirstRunDone
    /\ program = <<Let("new_money", N(0)),
                   Block(<<Let("new_money", N(1)), ShowE(Id("new_money"))>>),
                   ShowE(Id("new_money"))>>
    /\ out = <<<<IntV(1)>>, <<IntV(1)>>>>
    /\ scope_stack[1]["new_money"] = IntV(1)

-----------------------------------------------------------------------------
(* C21 *)

\* C21: update_variable(name, value) on a name that no frame of the scope
\* stack binds raises NameError and leaves every frame unchanged; no binding
\* is created, in particular none in the global frame.  The assignment
\* statement is the caller that lets the NameError through.
C21_UpdateUnboundRaises ==
    [][(At("assign_stmt") /\ ~IsBound(scope_stack, Head(control).name)) =>
          /\ sig' = "NameError"
          /\ scope_stack' = scope_stack
          /\ Head(control).name \notin BoundNames(scope_stack')]_vars

\* new_money = 1  has raised NameError inside a block, two frames deep, with
\* new_money bound nowhere afterwards
C21_Witness ==
    /\ last = [op |-> "DoAssignStmt", name |-> "new_money"]
    /\ sig = "NameError"
    /\ Len(scope_stack) = 2
    /\ "z" \in DOMAIN scope_stack[1] /\ "z" \in DOMAIN scope_stack[2]
    /\ "new_money" \notin BoundNames(scope_stack)

-----------------------------------------------------------------------------
(* C22 *)

\* C22: the global frame is created once and is never popped.  In every
\* reachable state the scope stack is non-empty and its bottom element is the
\* global frame, the frame that __init__ made with the input built-in and
\* that only ever gains or rebinds names; pop_scope called when only the
\* global frame remains raises the internal error and leaves the stack
\* unchanged.
C22_GlobalFrameStays ==
    [][/\ Len(scope_stack) >= 1
       /\ Len(scope_stack') >= 1
       /\ "input" \in DOMAIN scope_stack'[1]
       /\ DOMAIN scope_stack[1] \subseteq DOMAIN scope_stack'[1]
       /\ (last'.op = "pop_scope" /\ last.op # "pop_scope" /\ Len(scope_stack) = 1) =>
             /\ last'.name = "RuntimeError"
             /\ scope_stack' = scope_stack]_vars

\* pop_scope was called after a run that left a binding in the global frame,
\* and raised
C22_Witness ==
    /\ last = [op |-> "pop_scope", name |-> "RuntimeError"]
    /\ runs = 1
    /\ Len(scope_stack) = 1
    /\ "x" \in DOMAIN scope_stack[1]

-----------------------------------------------------------------------------
(* C23 *)

\* C23: a while statement evaluates its condition before every iteration,
\* the first included, and executes the body only when the condition is
\* truthy; a return raised inside the body stops the loop without
\* re-evaluating the condition and exits the enclosing function call.  With a
\* condition that counts its own evaluations in x, a loop of k - 1 iterations
\* has evaluated it k times, and a loop left by return in its first
\* iteration once.
C23_WhileCondition ==
    /\ \A k \in 1..3 :
          (FirstRunDone /\ program = WhileCount(k)) =>
              out = [i \in 1..k |-> <<IntV(i)>>]
    /\ \A k \in 2..3 :
          (FirstRunDone /\ program = WhileReturn(k)) =>
              out = <<<<IntV(7)>>, <<IntV(1)>>>>
    /\ (program \in WhilePrograms /\ runs = 1) => <<IntV(-1)>> \notin Shown

\* the loop of WhileReturn(3) was left by return after one evaluation of the
\* condition, and the call returned 7
C23_Witness ==
    /\ FirstRunDone
    /\ program = WhileReturn(3)
    /\ out = <<<<IntV(7)>>, <<IntV(1)>>>>
    /\ scope_stack[1]["x"] = IntV(1)

-----------------------------------------------------------------------------
(* C24 *)

\* The '${...}' interpolations of a source text, read off the text itself: a
\* quote opens or closes a string literal, '${' inside a string literal
\* opens an interpolation at brace depth 1, and inside an interpolation '{'
\* and '}' raise and lower the depth.  Interpolation(code, i, inString, depth)
\* is, for every '}' from position i on, the brace depth it is met at, 0
\* when it is inside no interpolation.
RECURSIVE Interpolation(_, _, _, _)
Interpolation(code, i, inString, depth) ==
    IF i > Len(code) THEN <<>>
    ELSE LET c == code[i]
             next == IF i < Len(code) THEN code[i + 1] ELSE ""
         IN CASE c = "\"" /\ depth = 0 -> Interpolation(code, i + 1, ~inString, 0)
              [] c = "$" /\ next = "{" /\ inString /\ depth = 0 ->
                    Interpolation(code, i + 2, inString, 1)
              [] c = "{" /\ depth > 0 -> Interpolation(code, i + 1, inString, depth + 1)
              [] c = "}" -> <<depth>> \o Interpolation(code, i + 1, inString,
                                                       IF depth > 0 THEN depth - 1 ELSE 0)
              [] OTHER -> Interpolation(code, i + 1, inString, depth)

\* the token each '}' of the text is to be emitted as
ClosingTokens(code) ==
    LET depths == Interpolation(code, 1, FALSE, 0)
    IN [k \in 1..Len(depths) |-> IF depths[k] = 1 THEN "INTERPOL_END" ELSE "RBRACE"]

\* the tokens of the list that a '}' was emitted as
RECURSIVE Closers(_)
Closers(toks) ==
    IF toks = <<>> THEN <<>>
    ELSE (IF Head(toks).type \in {"INTERPOL_END", "RBRACE"}
          THEN <<Head(toks).type>> ELSE <<>>) \o Closers(Tail(toks))

\* the brace depth the '}' at the current position is met at
DepthHere ==
    LET before == Interpolation(SubSeq(lexer.code, 1, lexer.lexpos - 1), 1, FALSE, 0)
        upto == Interpolation(SubSeq(lexer.code, 1, lexer.lexpos), 1, FALSE, 0)
    IN upto[Len(before) + 1]

\* C24: a closing '}' met inside a '${...}' interpolation decrements the
\* brace-depth counter; it is emitted as the interpolation-end token and
\* returns the lexer to the interpolation mode only when the counter reaches
\* zero, and every other '}' is emitted as a plain RBRACE with the mode
\* unchanged.  So every '}' of a text gets its token, of the type its place
\* in the text calls for.
C24_ClosingBrace ==
    [][/\ AtRule({"}"}) =>
             /\ lexer'.pc = "scanning"
             /\ Top(lexer'.tok_list).type =
                   (IF DepthHere = 1 THEN "INTERPOL_END" ELSE "RBRACE")
             /\ lexer'.state = (IF DepthHere = 1 THEN "interpolation" ELSE lexer.state)
             /\ DepthHere > 0 => lexer'.bracket_count = lexer.bracket_count - 1
       /\ (lexer.pc = "scanning" /\ lexer'.pc \in {"returned", "raised"}) =>
             Closers(lexer'.tok_list) = ClosingTokens(lexer.code)]_vars

\* tokenize("${}) has raised AttributeError at the '${' and never came to
\* the '}' of the interpolation
C24_Witness ==
    /\ lexer.pc = "raised"
    /\ lexer.code = <<"\"", "$", "{", "}">>
    /\ lexer.exc = "AttributeError"
    /\ lexer.lexpos = 2
    /\ ClosingTokens(lexer.code) = <<"INTERPOL_END">>
    /\ Closers(lexer.tok_list) = <<>>

-----------------------------------------------------------------------------
(* C25 *)

\* the current position is inside a string literal: an odd number of quotes
\* precede it
InStringHere ==
    Cardinality({i \in 1..(lexer.lexpos - 1) : lexer.code[i] = "\""}) % 2 = 1

\* C25: meeting '${' inside a string literal pushes a mode onto the mode
\* stack and leaves the lexer in the normal mode, so that the following
\* characters are lexed with the normal-mode rules, and increments the
\* brace-depth counter, so that the matching '}' brings it back to zero.
C25_InterpolationStart ==
    [][(AtRule({"$"}) /\ Peek = "{" /\ InStringHere) =>
          /\ lexer'.pc = "scanning"
          /\ lexer'.lexpos = lexer.lexpos + 2
          /\ Top(lexer'.tok_list).type = "INTERPOL_START"
          /\ lexer'.state = "INITIAL"
          /\ Len(lexer'.lexstatestack) = Len(lexer.lexstatestack) + 1
          /\ lexer'.bracket_count = lexer.bracket_count + 1]_vars

\* tokenize("${) has raised AttributeError at the '${': nothing was pushed,
\* and the count of the string was incremented in place of bracket_count
C25_Witness ==
    /\ lexer.pc = "raised"
    /\ lexer.rule = "t_INTERPOL_START"
    /\ lexer.exc = "AttributeError"
    /\ lexer.code = <<"\"", "$", "{">>
    /\ lexer.lexstatestack = <<>>
    /\ lexer.bracket_count = 0
    /\ lexer.interpolation_stack = <<1>>

\* no reachable state is in the interpolation mode, has a mode on the mode
\* stack, or holds an interpolation-end token
InterpolationModeUnreached ==
    /\ lexer.state = "INITIAL"
    /\ lexer.lexstatestack = <<>>
    /\ \A i \in 1..Len(lexer.tok_list) : lexer.tok_list[i].type # "INTERPOL_END"

-----------------------------------------------------------------------------
(* C26 *)

\* C26: a '}' that is inside no '${...}' interpolation, such as the closing
\* brace of a block, is always emitted as a plain RBRACE token and never
\* changes the lexer mode or pops the mode stack, also when string literals
\* occurred earlier in the same input.
C26_PlainClosingBrace ==
    [][(AtRule({"}"}) /\ DepthHere = 0 /\ ~InStringHere) =>
          /\ lexer'.pc = "scanning"
          /\ Top(lexer'.tok_list).type = "RBRACE"
          /\ lexer'.state = lexer.state
          /\ lexer'.lexstatestack = lexer.lexstatestack]_vars

\* tokenize of  ""{}  has raised IndexError at the '}' of the block, from
\* pop_state on the empty stack of states
C26_Witness ==
    /\ lexer.pc = "raised"
    /\ lexer.rule = "t_INITIAL_INTERPOL_END"
    /\ lexer.exc = "IndexError"
    /\ lexer.code = <<"\"", "\"", "{", "}">>
    /\ lexer.interpolation_stack = <<0, 0>>
    /\ lexer.bracket_count = 0

-----------------------------------------------------------------------------
(* C27 *)

\* C27: lexer state does not leak between inputs.  Every call of tokenize or
\* of parse starts from the same initial lexer state, the normal mode, an
\* empty mode stack, an empty interpolation stack and the brace-depth counter
\* at zero, whatever state a previous call left behind, one that ended in an
\* error included; so the same source always yields the same tokens.
C27_CallStartsFresh ==
    [][(lexer.pc = "idle" /\ lexer'.pc = "scanning") =>
          /\ lexer'.state = InitialLexer.state
          /\ lexer'.lexstatestack = InitialLexer.lexstatestack
          /\ lexer'.interpolation_stack = InitialLexer.interpolation_stack
          /\ lexer'.bracket_count = InitialLexer.bracket_count
          /\ lexer'.lexpos = InitialLexer.lexpos]_vars

\* the second call, parse of  "{}  after a call that left bracket_count at 1,
\* has returned the three tokens of the text; on a new Lexer the same text
\* ends in IndexError at the '}'
C27_Witness ==
    /\ lexer.pc = "returned"
    /\ lexer.entry = "parse"
    /\ lexer.calls = 2
    /\ lexer.code = <<"\"", "{", "}">>
    /\ lexer.bracket_count = 1
    /\ Len(lexer.result) = 3
    /\ lexer.result[3].type = "RBRACE"

\* tokenize alone starts every call from the initial state
TokenizeStartsFresh ==
    [][(lexer.pc = "idle" /\ lexer'.pc = "scanning" /\ lexer'.entry = "tokenize") =>
          /\ lexer'.state = InitialLexer.state
          /\ lexer'.lexstatestack = InitialLexer.lexstatestack
          /\ lexer'.interpolation_stack = InitialLexer.interpolation_stack
          /\ lexer'.bracket_count = InitialLexer.bracket_count
          /\ lexer'.lexpos = InitialLexer.lexpos]_vars

-----------------------------------------------------------------------------
(* C28 *)

\* a runtime error is in flight: raised and not yet reported by run_program
ErrorInFlight == Running /\ sig \notin {"ok", "return"}

\* C28: a runtime stays usable after a failed run.  From the moment a
\* runtime error is raised, at any block or call depth, to the end of
\* run_program the global bindings and the function definitions made before
\* the error stay as they are; when run_program has ended the scope stack
\* holds only the global frame and nothing of the failed run is pending, so
\* that a following run_program executes its statements normally.
C28_UsableAfterError ==
    [][ErrorInFlight =>
          /\ scope_stack'[1] = scope_stack[1]
          /\ functions' = functions
          /\ phase' = "idle" =>
                /\ Len(scope_stack') = 1
                /\ sig' = "ok"
                /\ control' = <<>>
                /\ vals' = <<>>]_vars

\* the second run on a runtime whose first run failed three frames deep has
\* shown x, which the first run bound before the error
C28_Witness ==
    /\ runs = 2
    /\ phase = "idle"
    /\ Len(diag) = 1
    /\ program = <<ShowE(Id("x"))>>
    /\ out # <<>>
    /\ out[Len(out)] = <<IntV(1)>>
    /\ Len(scope_stack) = 1

-----------------------------------------------------------------------------
(* C29 *)

\* C29: the function table is flat and independent of the scope stack.  A
\* function declared inside a block or inside the body of another function
\* stays callable after that block or call has exited, and pushing or popping
\* scope frames never adds, removes or changes a function definition: the
\* table changes only when a fun_decl statement is executed, and then no
\* definition is removed.
C29_FlatFunctionTable ==
    [][/\ scope_stack' # scope_stack /\ Len(scope_stack') # Len(scope_stack) =>
             functions' = functions
       /\ functions' # functions =>
             /\ last'.op = "StmtFunDecl"
             /\ DOMAIN functions \subseteq DOMAIN functions'
             /\ scope_stack' = scope_stack
       /\ (phase' = "idle" /\ runs' = 1 /\ program' \in NestedFunPrograms) =>
             /\ "f" \in DOMAIN functions'
             /\ Len(out') = 1
             /\ out'[1] \in {<<IntV(1)>>, <<IntV(2)>>}]_vars

\* f, declared inside the body of g, has been called after the call of g
\* returned, and returned 2
C29_Witness ==
    /\ FirstRunDone
    /\ program \in NestedFunPrograms
    /\ DOMAIN functions = {"f", "g"}
    /\ out = <<<<IntV(2)>>>>
    /\ Len(scope_stack) = 1

-----------------------------------------------------------------------------
(* C30 *)

\* let n = 0  while n < 2 { n = n + 1 }  show n
LoopProgram(n) ==
    <<Let(n, N(0)),
      While(Binop("<", Id(n), N(2)), Block(<<AssignAst(n, Binop("+", Id(n), N(1)))>>)),
      ShowE(Id(n))>>

\* the interpreter is single-threaded and goes on with the next step of a
\* run for as long as there is one
FairSpec == Spec /\ WF_vars(Running /\ Next)

\* C30: for every variable name, a while loop whose condition reads a
\* variable bound in the frame enclosing the loop and whose body assigns that
\* variable a value that makes the condition false terminates: the condition
\* evaluated after that iteration sees the assigned value and the loop exits.
C30_LoopTerminates ==
    \A n \in VarNames :
        (Running /\ program = LoopProgram(n)) ~>
            (phase = "idle" /\ program = LoopProgram(n) /\ out = <<<<IntV(2)>>>>)

\* the loop on new_money is at its third test of the condition and
\* new_money is 0 again
C30_Witness ==
    /\ At("while_test")
    /\ program = LoopProgram("new_money")
    /\ scope_stack[1]["new_money"] = IntV(0)
    /\ last.op = "DoBinopApply"
    /\ Top(vals) = BoolV(TRUE)
    /\ out = <<>>

\* the same for the names that execute_block does not track
LoopTerminatesUntracked ==
    \A n \in VarNames \ TrackedNames :
        (Running /\ program = LoopProgram(n)) ~>
            (phase = "idle" /\ program = LoopProgram(n) /\ out = <<<<IntV(2)>>>>)

====
